---- MODULE Spec2Model ----
(***************************************************************************)
(* Model of rdb, a ptrace-based source-level debugger for x86-64 Linux.    *)
(*                                                                         *)
(* The traced target is a small program of one-byte instructions that      *)
(* lives, with its stack, in a byte-addressed memory.  The tracer calls    *)
(* (peekdata, pokedata, cont, singlestep, wait, getregs, setregs,          *)
(* getsiginfo) act on that target as the kernel does.  The debugger        *)
(* operations are translated from src/src/debugger.rs and the tracer       *)
(* wrappers from src/src/ptrace.rs.                                        *)
(*                                                                         *)
(* Every operator that models a piece of sequential code takes the whole   *)
(* machine state as a record S and returns the state after the code ran.   *)
(* S.dbg is "ok" while the debugger runs, "panicked" once a Rust panic     *)
(* (unwrap/expect/assert) fired and "hung" when the debugger never comes   *)
(* back to the prompt.                                                     *)
(***************************************************************************)
EXTENDS Integers, Sequences, FiniteSets, TLC

VARIABLES
    mem,            \* target memory: mapped address -> byte
    regs,           \* target registers: the fields of user_regs_struct
    tstate,         \* target task: "stopped", "running", "exited", "gone"
    resume,         \* how a running target was resumed: "cont", "step", "none"
    siginfo,        \* siginfo of the last stop: [signo, code]
    load_addr,      \* Dbg.load_addr
    running,        \* Dbg.running
    breakpoints,    \* Dbg.breakpoints: address -> Breakpoint
    to_delete,      \* TempBreakpoints.to_delete of the last compound step
    transient,      \* addresses pushed on to_delete by the last command
    dbg,            \* "ok" (at the prompt), "panicked", "hung"
    cmd,            \* the last command: [name, pc]
    out,            \* messages printed by the last command
    stop,           \* last wait of the last command: [kind, pc, at, via]
    debug_assertions, \* whether debug_assert! is compiled in
    nexec,          \* instructions the target ran in the last command (capped)
    trace,          \* tracer requests of the last command, in order
    snap,           \* breakpoint table and memory at the last PTRACE_CONT
    violated,       \* debug_assert! messages whose condition was false in the last command
    resumed,        \* whether a resuming command was issued in this session
    input,          \* input of the pure-function specifications
    result          \* result of the pure-function specifications

vars == <<mem, regs, tstate, resume, siginfo, load_addr, running, breakpoints,
          to_delete, transient, dbg, cmd, out, stop, debug_assertions,
          nexec, trace, snap, violated, resumed, input, result>>

-----------------------------------------------------------------------------
(* Constants of the program and of the kernel interface *)

INT3_INSTR == 204
SI_KERNEL == 128
TRAP_BRKPT == 1
TRAP_TRACE == 2
SIGTRAP == 5
SIGSEGV == 11

\* errno values set by a failing ptrace / waitpid
ESRCH == 3
EIO == 5

\* Option<T>: None is the empty sequence, Some(x) is <<x>>
None == <<>>
Some(x) == <<x>>
is_some(o) == o # <<>>
unwrap(o) == o[1]

\* let x = v in F(x), with v evaluated once
Let(v, F(_)) == CHOOSE r \in {F(x) : x \in {v}} : TRUE

-----------------------------------------------------------------------------
(* 64-bit words as eight bytes, little endian.  Addresses are small         *)
(* integers; every u64 at or above AddrLimit is identified with AddrLimit.  *)

AddrLimit == 65536

Byte == 0..255

AllOnes == [i \in 1..8 |-> 255]

WordToAddr(w) ==
    LET v == w[1] + 256 * w[2] + 65536 * w[3]
    IN  IF (\A i \in 4..8 : w[i] = 0) /\ v < AddrLimit THEN v ELSE AddrLimit

AddrToWord(a) ==
    IF a >= AddrLimit THEN AllOnes
    ELSE [i \in 1..8 |-> CASE i = 1 -> a % 256
                           [] i = 2 -> (a \div 256) % 256
                           [] i = 3 -> (a \div 65536) % 256
                           [] OTHER -> 0]

\* old_data & 0xff
LowByte(w) == w[1]

\* (old_data & !0xff) | b
WithLowByte(w, b) == [w EXCEPT ![1] = b]

\* u64 addition and subtraction on the abstracted addresses
AddU64(a, n) == IF a >= AddrLimit \/ a + n >= AddrLimit THEN AddrLimit ELSE a + n
SubU64(a, n) == IF a >= AddrLimit \/ a < n THEN AddrLimit ELSE a - n
\* a - n wraps below zero
Underflows(a, n) == a < n

-----------------------------------------------------------------------------
(* The target program (the shape of src/src/bin/test.rs: an entry stub     *)
(* calling main, main calling one function, lld's int3 padding between     *)
(* functions).  Every instruction is one byte long.                        *)

\* ELF-relative address of the first byte of the image
ImgOff == 16

\* number of 8-byte stack slots mapped right after the code
StackWords == 4

Ins(b, op, arg, fn, line) == [byte |-> b, op |-> op, arg |-> arg, fn |-> fn, line |-> line]

Code == <<
    Ins(232, "call", ImgOff + 3, "_start", 0),    \* +0  _start: call main
    Ins(15,  "exit", 0, "_start", 0),             \* +1          exit(0)
    Ins(204, "int3", 0, "", 0),                   \* +2  padding
    Ins(85,  "push_rbp", 0, "main", 30),          \* +3  main:
    Ins(72,  "mov_rbp_rsp", 0, "main", 30),       \* +4
    Ins(232, "call", ImgOff + 10, "main", 31),    \* +5          call f
    Ins(144, "nop", 0, "main", 32),               \* +6
    Ins(93,  "pop_rbp", 0, "main", 33),           \* +7
    Ins(195, "ret", 0, "main", 33),               \* +8
    Ins(204, "int3", 0, "", 0),                   \* +9  padding
    Ins(85,  "push_rbp", 0, "f", 10),             \* +10 f:
    Ins(72,  "mov_rbp_rsp", 0, "f", 10),          \* +11
    Ins(144, "nop", 0, "f", 11),                  \* +12
    Ins(144, "nop", 0, "f", 12),                  \* +13
    Ins(93,  "pop_rbp", 0, "f", 13),              \* +14
    Ins(195, "ret", 0, "f", 13)                   \* +15
>>

CodeLen == Len(Code)
MemLen == CodeLen + 8 * StackWords

\* ELF-relative addresses of the code
CodePcs == ImgOff .. (ImgOff + CodeLen - 1)
InsAt(pc) == Code[pc - ImgOff + 1]

\* runtime address range of the one mapping (code followed by the stack)
MemBase(la) == la + ImgOff
MemDom(la) == MemBase(la) .. (MemBase(la) + MemLen - 1)

\* the program image as loaded at load address la
Image(la) == [a \in MemDom(la) |->
                 IF a - la \in CodePcs THEN InsAt(a - la).byte ELSE 0]

-----------------------------------------------------------------------------
(* Debug information of the target (DWARF), ELF-relative *)

Functions == {"main", "f"}

\* [low_pc, high_pc) of the subprogram DIE containing pc, or None
get_function_range_from_pc(pc) ==
    IF pc \in CodePcs /\ InsAt(pc).fn \in Functions
    THEN LET fn == InsAt(pc).fn
             ps == {p \in CodePcs : InsAt(p).fn = fn}
             lo == CHOOSE p \in ps : \A q \in ps : p <= q
             hi == CHOOSE p \in ps : \A q \in ps : q <= p
         IN  Some([start |-> lo, end |-> hi + 1])
    ELSE None

\* is pc the first address of a line-table row
IsRowStart(pc) ==
    /\ pc \in CodePcs
    /\ InsAt(pc).line # 0
    /\ \/ pc = ImgOff
       \/ InsAt(pc - 1).fn # InsAt(pc).fn
       \/ InsAt(pc - 1).line # InsAt(pc).line

RECURSIVE RowStartsFrom(_, _)
RowStartsFrom(lo, hi) ==
    IF lo >= hi THEN <<>>
    ELSE (IF IsRowStart(lo) THEN <<lo>> ELSE <<>>) \o RowStartsFrom(lo + 1, hi)

\* starting pcs of the line rows of the function around pc, ascending
function_lines_from_pc(pc) ==
    LET range == get_function_range_from_pc(pc)
    IN  IF range = None THEN <<>>
        ELSE RowStartsFrom(unwrap(range).start, unwrap(range).end)

\* (file, line) of pc, or None
source_for_pc(pc) ==
    IF pc \in CodePcs /\ InsAt(pc).line # 0
    THEN Some([file |-> "src/bin/test.rs", line |-> InsAt(pc).line])
    ELSE None

\* the debugging information entries of the unit, in DFS order: the unit,
\* the namespace of the crate, the two subprograms and a base type; low_pc
\* is None for an entry without DW_AT_low_pc
Die(tag, die_name, low_pc) == [tag |-> tag, name |-> die_name, low_pc |-> low_pc]

Dies == <<
    Die("DW_TAG_compile_unit", "src/bin/test.rs", None),
    Die("DW_TAG_namespace", "test", None),
    Die("DW_TAG_subprogram", "main", Some(ImgOff + 3)),
    Die("DW_TAG_subprogram", "f", Some(ImgOff + 10)),
    Die("DW_TAG_base_type", "u64", None)
>>

\* at_low_pc: DW_AT_low_pc of the entry, 0 when it has none
at_low_pc(die) == IF is_some(die.low_pc) THEN unwrap(die.low_pc) ELSE 0

\* DbgInfo::pc_for_function_pred with the predicate |name| name == needle
pc_for_function_pred(needle) ==
    IF \E i \in 1..Len(Dies) : Dies[i].name = needle
    THEN LET i == CHOOSE k \in 1..Len(Dies) :
                      Dies[k].name = needle /\ \A j \in 1..(k - 1) : Dies[j].name # needle
         IN  Some(at_low_pc(Dies[i]))
    ELSE None

-----------------------------------------------------------------------------
(* Wait status decoding (libc W* macros on the raw status word) *)

WIFEXITED(s) == (s % 128) = 0
WEXITSTATUS(s) == (s \div 256) % 256
\* ((s & 0x7f) + 1) as i8 >= 2
WIFSIGNALED(s) == LET t == (s % 128) + 1 IN (IF t >= 128 THEN t - 256 ELSE t) >= 2
WTERMSIG(s) == s % 128
WIFSTOPPED(s) == (s % 256) = 127
WSTOPSIG(s) == (s \div 256) % 256

\* the decoding without the WIFSIGNALED arm
WaitStatusFrom_no_signaled(stat_val) ==
    IF WIFEXITED(stat_val)
    THEN [tag |-> "Exited", val |-> WEXITSTATUS(stat_val)]
    ELSE IF WIFSTOPPED(stat_val)
    THEN [tag |-> "Stopped", val |-> WSTOPSIG(stat_val)]
    ELSE [tag |-> "panic", val |-> 0]

\* impl From<libc::c_int> for WaitStatus; tag "panic" is the panic! arm
WaitStatusFrom(stat_val) ==
    IF WIFEXITED(stat_val)
    THEN [tag |-> "Exited", val |-> WEXITSTATUS(stat_val)]
    ELSE IF WIFSIGNALED(stat_val)
    THEN [tag |-> "Signaled", val |-> WTERMSIG(stat_val)]
    ELSE IF WIFSTOPPED(stat_val)
    THEN [tag |-> "Stopped", val |-> WSTOPSIG(stat_val)]
    ELSE [tag |-> "panic", val |-> 0]

-----------------------------------------------------------------------------
(* Registers: the Reg enumeration, its descriptors and the name parser.  A  *)
(* string is a sequence of one-character strings.                          *)

\* enum Reg
Reg ==
    {"Rax", "Rbx", "Rcx", "Rdx", "Rdi", "Rsi", "Rbp", "Rsp", "R8", "R9",
     "R10", "R11", "R12", "R13", "R14", "R15", "Rip", "Rflags", "Cs",
     "Orig_rax", "Fs_base", "Gs_base", "Fs", "Gs", "Ss", "Ds", "Es"}

\* the fields of the register block (libc::user_regs_struct) that
\* Reg::user_regs_ptr names
user_regs_struct ==
    {"rax", "rbx", "rcx", "rdx", "rdi", "rsi", "rbp", "rsp", "r8", "r9",
     "r10", "r11", "r12", "r13", "r14", "r15", "rip", "eflags", "cs",
     "orig_rax", "fs_base", "gs_base", "fs", "gs", "ss", "ds", "es"}

\* Reg::user_regs_ptr: the field of the block that holds register r
user_regs_ptr(r) ==
    CASE r = "Rax" -> "rax"
      [] r = "Rbx" -> "rbx"
      [] r = "Rcx" -> "rcx"
      [] r = "Rdx" -> "rdx"
      [] r = "Rdi" -> "rdi"
      [] r = "Rsi" -> "rsi"
      [] r = "Rbp" -> "rbp"
      [] r = "Rsp" -> "rsp"
      [] r = "R8" -> "r8"
      [] r = "R9" -> "r9"
      [] r = "R10" -> "r10"
      [] r = "R11" -> "r11"
      [] r = "R12" -> "r12"
      [] r = "R13" -> "r13"
      [] r = "R14" -> "r14"
      [] r = "R15" -> "r15"
      [] r = "Rip" -> "rip"
      [] r = "Rflags" -> "eflags"
      [] r = "Cs" -> "cs"
      [] r = "Orig_rax" -> "orig_rax"
      [] r = "Fs_base" -> "fs_base"
      [] r = "Gs_base" -> "gs_base"
      [] r = "Fs" -> "fs"
      [] r = "Gs" -> "gs"
      [] r = "Ss" -> "ss"
      [] r = "Ds" -> "ds"
      [] r = "Es" -> "es"

\* Reg::get_reg
get_reg(r, rs) == rs[user_regs_ptr(r)]

\* Reg::set_reg
set_reg(r, rs, val) == [rs EXCEPT ![user_regs_ptr(r)] = val]

\* the identifiers of enum Reg as written in the source
Ident ==
    [
     Rax |-> <<"R", "a", "x">>,
     Rbx |-> <<"R", "b", "x">>,
     Rcx |-> <<"R", "c", "x">>,
     Rdx |-> <<"R", "d", "x">>,
     Rdi |-> <<"R", "d", "i">>,
     Rsi |-> <<"R", "s", "i">>,
     Rbp |-> <<"R", "b", "p">>,
     Rsp |-> <<"R", "s", "p">>,
     R8 |-> <<"R", "8">>,
     R9 |-> <<"R", "9">>,
     R10 |-> <<"R", "1", "0">>,
     R11 |-> <<"R", "1", "1">>,
     R12 |-> <<"R", "1", "2">>,
     R13 |-> <<"R", "1", "3">>,
     R14 |-> <<"R", "1", "4">>,
     R15 |-> <<"R", "1", "5">>,
     Rip |-> <<"R", "i", "p">>,
     Rflags |-> <<"R", "f", "l", "a", "g", "s">>,
     Cs |-> <<"C", "s">>,
     Orig_rax |-> <<"O", "r", "i", "g", "_", "r", "a", "x">>,
     Fs_base |-> <<"F", "s", "_", "b", "a", "s", "e">>,
     Gs_base |-> <<"G", "s", "_", "b", "a", "s", "e">>,
     Fs |-> <<"F", "s">>,
     Gs |-> <<"G", "s">>,
     Ss |-> <<"S", "s">>,
     Ds |-> <<"D", "s">>,
     Es |-> <<"E", "s">>
    ]

\* const fn desc
desc(reg, dwarf_r, name) == [reg |-> reg, dwarf_r |-> dwarf_r, name |-> name]

\* pub const REGS: [RegDescriptor; 27]
REGS == <<
    desc("R15", 5, <<"r", "1", "5">>),
    desc("R14", 4, <<"r", "1", "4">>),
    desc("R13", 3, <<"r", "1", "3">>),
    desc("R12", 2, <<"r", "1", "2">>),
    desc("Rbp", 6, <<"r", "b", "p">>),
    desc("Rbx", 3, <<"r", "b", "x">>),
    desc("R11", 1, <<"r", "1", "1">>),
    desc("R10", 0, <<"r", "1", "0">>),
    desc("R9", 9, <<"r", "9">>),
    desc("R8", 8, <<"r", "8">>),
    desc("Rax", 0, <<"r", "a", "x">>),
    desc("Rcx", 2, <<"r", "c", "x">>),
    desc("Rdx", 1, <<"r", "d", "x">>),
    desc("Rsi", 4, <<"r", "s", "i">>),
    desc("Rdi", 5, <<"r", "d", "i">>),
    desc("Orig_rax", 1, <<"o", "r", "i", "g", "_", "r", "a", "x">>),
    desc("Rip", 1, <<"r", "i", "p">>),
    desc("Cs", 1, <<"c", "s">>),
    desc("Rflags", 9, <<"e", "f", "l", "a", "g", "s">>),
    desc("Rsp", 7, <<"r", "s", "p">>),
    desc("Ss", 2, <<"s", "s">>),
    desc("Fs_base", 8, <<"f", "s", "_", "b", "a", "s", "e">>),
    desc("Gs_base", 9, <<"g", "s", "_", "b", "a", "s", "e">>),
    desc("Ds", 3, <<"d", "s">>),
    desc("Es", 0, <<"e", "s">>),
    desc("Fs", 4, <<"f", "s">>),
    desc("Gs", 5, <<"g", "s">>)
>>

\* the name of a register: the name of its descriptor in REGS
name(r) == REGS[CHOOSE i \in 1..Len(REGS) : REGS[i].reg = r].name

Ok(v) == [ok |-> TRUE, val |-> v]
Err(e) == [ok |-> FALSE, val |-> e]

\* Iterator::find over REGS: the index of the first descriptor with P, 0 if none
find(P(_)) ==
    IF \E i \in 1..Len(REGS) : P(REGS[i])
    THEN CHOOSE i \in 1..Len(REGS) : P(REGS[i]) /\ \A j \in 1..(i - 1) : ~P(REGS[j])
    ELSE 0

\* u8::to_ascii_uppercase on the characters register names are made of
AsciiUpper ==
    [a |-> "A", b |-> "B", c |-> "C", d |-> "D", e |-> "E", f |-> "F",
     g |-> "G", h |-> "H", i |-> "I", j |-> "J", k |-> "K", l |-> "L",
     m |-> "M", n |-> "N", o |-> "O", p |-> "P", q |-> "Q", r |-> "R",
     s |-> "S", t |-> "T", u |-> "U", v |-> "V", w |-> "W", x |-> "X",
     y |-> "Y", z |-> "Z"]
to_ascii_uppercase(c) == IF c \in DOMAIN AsciiUpper THEN AsciiUpper[c] ELSE c
str_to_ascii_uppercase(s) == [i \in 1..Len(s) |-> to_ascii_uppercase(s[i])]

\* u8::to_ascii_lowercase, the inverse of to_ascii_uppercase on letters
to_ascii_lowercase(c) ==
    IF \E l \in DOMAIN AsciiUpper : AsciiUpper[l] = c
    THEN CHOOSE l \in DOMAIN AsciiUpper : AsciiUpper[l] = c
    ELSE c
str_to_ascii_lowercase(s) == [i \in 1..Len(s) |-> to_ascii_lowercase(s[i])]

\* whether p is a prefix of s: str::starts_with
starts_with(s, p) == Len(p) <= Len(s) /\ SubSeq(s, 1, Len(p)) = p

\* whether p is a suffix of s: str::ends_with
ends_with(s, p) == Len(p) <= Len(s) /\ SubSeq(s, Len(s) - Len(p) + 1, Len(s)) = p

\* try_from comparing with starts_with in place of ==
try_from_starts_with(s) ==
    LET i == find(LAMBDA r : starts_with(r.name, s))
    IN  IF i # 0 THEN Ok(REGS[i].reg) ELSE Err("invalid register name")

\* try_from comparing with eq_ignore_ascii_case in place of ==
try_from_ignore_case(s) ==
    LET i == find(LAMBDA r : str_to_ascii_uppercase(r.name) = str_to_ascii_uppercase(s))
    IN  IF i # 0 THEN Ok(REGS[i].reg) ELSE Err("invalid register name")

\* impl TryFrom<&str> for Reg
try_from(s) ==
    LET i == find(LAMBDA r : r.name = s)
    IN  IF i # 0 THEN Ok(REGS[i].reg) ELSE Err("invalid register name")

\* Reg::from_dwarf
from_dwarf(dwarf_r) ==
    LET i == find(LAMBDA r : r.dwarf_r = dwarf_r)
    IN  IF i # 0 THEN Ok(REGS[i].reg) ELSE Err("invalid dwarf register")

\* const REGS of ret_addr::dwarf_to_reg: (register, DWARF number)
DWARF_REGS == <<
    <<"R15", 5>>, <<"R14", 4>>, <<"R13", 3>>, <<"R12", 2>>, <<"Rbp", 6>>,
    <<"Rbx", 3>>, <<"R11", 1>>, <<"R10", 0>>, <<"R9", 9>>, <<"R8", 8>>,
    <<"Rax", 0>>, <<"Rcx", 2>>, <<"Rdx", 1>>, <<"Rsi", 4>>, <<"Rdi", 5>>,
    <<"Orig_rax", 1>>, <<"Rip", 1>>, <<"Cs", 1>>, <<"Rflags", 9>>,
    <<"Rsp", 7>>, <<"Ss", 2>>, <<"Fs_base", 8>>, <<"Gs_base", 9>>,
    <<"Ds", 3>>, <<"Es", 0>>, <<"Fs", 4>>, <<"Gs", 5>>
>>

\* ret_addr::dwarf_to_reg
dwarf_to_reg(dwarf_r) ==
    LET hits == {i \in 1..Len(DWARF_REGS) : DWARF_REGS[i][2] = dwarf_r}
    IN  IF hits # {}
        THEN Ok(DWARF_REGS[CHOOSE i \in hits : \A j \in hits : i <= j][1])
        ELSE Err("invalid dwarf register")

-----------------------------------------------------------------------------
(* Command-line arguments: src/src/cli.rs *)

\* the digits of char::to_digit, by value
Digits == <<"0", "1", "2", "3", "4", "5", "6", "7", "8", "9", "a", "b", "c", "d", "e", "f">>

\* char::to_digit(radix): None when c is no digit of the radix
to_digit(c, radix) ==
    LET lc == to_ascii_lowercase(c)
    IN  IF \E i \in 1..radix : Digits[i] = lc
        THEN Some((CHOOSE i \in 1..radix : Digits[i] = lc) - 1)
        ELSE None

\* the number a string of digits of the radix stands for
RECURSIVE digits_value(_, _)
digits_value(t, radix) ==
    IF t = <<>> THEN 0
    ELSE digits_value(SubSeq(t, 1, Len(t) - 1), radix) * radix
            + unwrap(to_digit(t[Len(t)], radix))

\* u64::from_str_radix / str::parse::<usize>: an optional '+', then digits.
\* The arguments of the model are too short to overflow 64 bits.
from_str_radix(src, radix) ==
    IF src = <<>> THEN Err("cannot parse integer from empty string")
    ELSE LET digits == IF src[1] = "+" THEN Tail(src) ELSE src
         IN  IF digits = <<>> \/ \E i \in 1..Len(digits) : to_digit(digits[i], radix) = None
             THEN Err("invalid digit found in string")
             ELSE Ok(digits_value(digits, radix))

\* str::strip_prefix
strip_prefix(s, p) ==
    IF starts_with(s, p) THEN Some(SubSeq(s, Len(p) + 1, Len(s))) ELSE None

\* str::split_once: around the first occurrence of c
split_once(s, c) ==
    IF \E i \in 1..Len(s) : s[i] = c
    THEN LET i == CHOOSE k \in 1..Len(s) : s[k] = c /\ \A j \in 1..(k - 1) : s[j] # c
         IN  Some(<<SubSeq(s, 1, i - 1), SubSeq(s, i + 1, Len(s))>>)
    ELSE None

\* str::rsplit_once: around the last occurrence of c
rsplit_once(s, c) ==
    IF \E i \in 1..Len(s) : s[i] = c
    THEN LET i == CHOOSE k \in 1..Len(s) : s[k] = c /\ \A j \in (k + 1)..Len(s) : s[j] # c
         IN  Some(<<SubSeq(s, 1, i - 1), SubSeq(s, i + 1, Len(s))>>)
    ELSE None

\* enum BreakpointLoc
Addr(pc) == [kind |-> "Addr", text |-> <<>>, num |-> pc]
Line(file, line) == [kind |-> "Line", text |-> file, num |-> line]
Function(fname) == [kind |-> "Function", text |-> fname, num |-> 0]

\* BreakpointLoc::parse splitting at the last ':' in place of the first
BreakpointLoc_parse_rsplit(value) ==
    LET num == strip_prefix(value, <<"0", "x">>)
        fl == rsplit_once(value, ":")
    IN  IF is_some(num)
        THEN LET pc == from_str_radix(unwrap(num), 16)
             IN  IF pc.ok THEN Ok(Addr(pc.val)) ELSE pc
        ELSE IF is_some(fl)
        THEN LET line == from_str_radix(unwrap(fl)[2], 10)
             IN  IF line.ok THEN Ok(Line(unwrap(fl)[1], line.val)) ELSE line
        ELSE Ok(Function(value))

\* BreakpointLoc::parse
BreakpointLoc_parse(value) ==
    LET num == strip_prefix(value, <<"0", "x">>)
        fl == split_once(value, ":")
    IN  IF is_some(num)
        THEN LET pc == from_str_radix(unwrap(num), 16)
             IN  IF pc.ok THEN Ok(Addr(pc.val)) ELSE pc
        ELSE IF is_some(fl)
        THEN LET line == from_str_radix(unwrap(fl)[2], 10)
             IN  IF line.ok THEN Ok(Line(unwrap(fl)[1], line.val)) ELSE line
        ELSE Ok(Function(value))

-----------------------------------------------------------------------------
(* The traced task as the kernel runs it *)

WordMapped(m, a) == \A i \in 0..7 : a + i \in DOMAIN m
ReadWord(m, a) == [i \in 1..8 |-> m[a + i - 1]]
WriteWord(m, a, w) ==
    [x \in DOMAIN m |-> IF x >= a /\ x <= a + 7 THEN w[x - a + 1] ELSE m[x]]

\* longest run of the target between two stops
MaxRun == 24

\* instructions of one command are counted up to MaxCount
MaxCount == 2

\* the task has completed one more instruction
Ran(S) == [S EXCEPT !.nexec = IF @ < MaxCount THEN @ + 1 ELSE @]

\* execute the instruction at rip; ev tells how it ended, at is its address
Exec1(S) ==
    LET rip == S.regs.rip
        rsp == S.regs.rsp
        next == AddU64(rip, 1)
    IN  IF rip \notin DOMAIN S.mem
        THEN [s |-> S, ev |-> "segv", at |-> rip]
        ELSE IF S.mem[rip] = INT3_INSTR
        THEN [s |-> [Ran(S) EXCEPT !.regs.rip = next], ev |-> "int3", at |-> rip]
        ELSE IF rip - load_addr \notin CodePcs
        THEN [s |-> S, ev |-> "segv", at |-> rip]
        ELSE LET ins == InsAt(rip - load_addr) IN
        CASE ins.op = "nop" ->
                [s |-> [Ran(S) EXCEPT !.regs.rip = next], ev |-> "ok", at |-> rip]
          [] ins.op = "mov_rbp_rsp" ->
                [s |-> [Ran(S) EXCEPT !.regs.rip = next, !.regs.rbp = rsp], ev |-> "ok", at |-> rip]
          [] ins.op = "push_rbp" ->
                IF rsp >= 8 /\ WordMapped(S.mem, rsp - 8)
                THEN [s |-> [Ran(S) EXCEPT !.regs.rip = next, !.regs.rsp = rsp - 8,
                                      !.mem = WriteWord(S.mem, rsp - 8, AddrToWord(S.regs.rbp))],
                      ev |-> "ok", at |-> rip]
                ELSE [s |-> S, ev |-> "segv", at |-> rip]
          [] ins.op = "call" ->
                IF rsp >= 8 /\ WordMapped(S.mem, rsp - 8)
                THEN [s |-> [Ran(S) EXCEPT !.regs.rip = load_addr + ins.arg, !.regs.rsp = rsp - 8,
                                      !.mem = WriteWord(S.mem, rsp - 8, AddrToWord(next))],
                      ev |-> "ok", at |-> rip]
                ELSE [s |-> S, ev |-> "segv", at |-> rip]
          [] ins.op = "pop_rbp" ->
                IF WordMapped(S.mem, rsp)
                THEN [s |-> [Ran(S) EXCEPT !.regs.rip = next, !.regs.rsp = rsp + 8,
                                      !.regs.rbp = WordToAddr(ReadWord(S.mem, rsp))],
                      ev |-> "ok", at |-> rip]
                ELSE [s |-> S, ev |-> "segv", at |-> rip]
          [] ins.op = "ret" ->
                IF WordMapped(S.mem, rsp)
                THEN [s |-> [Ran(S) EXCEPT !.regs.rip = WordToAddr(ReadWord(S.mem, rsp)),
                                      !.regs.rsp = rsp + 8],
                      ev |-> "ok", at |-> rip]
                ELSE [s |-> S, ev |-> "segv", at |-> rip]
          [] ins.op = "exit" ->
                [s |-> Ran(S), ev |-> "exit", at |-> rip]
          [] OTHER ->
                [s |-> S, ev |-> "segv", at |-> rip]

\* run after PTRACE_CONT until the task stops or exits
RECURSIVE RunCont(_, _)
RunCont(S, fuel) ==
    Let(Exec1(S), LAMBDA r :
        IF r.ev # "ok" THEN r
        ELSE IF fuel = 0 THEN [s |-> r.s, ev |-> "forever", at |-> r.at]
        ELSE RunCont(r.s, fuel - 1))

\* the task runs as it was resumed; the result is what waitpid then reports
RunTarget(S) ==
    Let(IF S.resume = "step" THEN Exec1(S) ELSE RunCont(S, MaxRun), LAMBDA r :
    LET st(kind) == [kind |-> kind, pc |-> r.s.regs.rip, at |-> r.at, via |-> S.resume]
    IN  CASE r.ev = "ok" ->
                [s |-> [r.s EXCEPT !.tstate = "stopped", !.resume = "none",
                                   !.siginfo = [signo |-> SIGTRAP, code |-> TRAP_TRACE],
                                   !.stop = st("trace")],
                 raw |-> SIGTRAP * 256 + 127]
          [] r.ev = "int3" ->
                [s |-> [r.s EXCEPT !.tstate = "stopped", !.resume = "none",
                                   !.siginfo = [signo |-> SIGTRAP, code |-> SI_KERNEL],
                                   !.stop = st("brk")],
                 raw |-> SIGTRAP * 256 + 127]
          [] r.ev = "segv" ->
                [s |-> [r.s EXCEPT !.tstate = "stopped", !.resume = "none",
                                   !.siginfo = [signo |-> SIGSEGV, code |-> 1],
                                   !.stop = st("segv")],
                 raw |-> SIGSEGV * 256 + 127]
          [] r.ev = "exit" ->
                [s |-> [r.s EXCEPT !.tstate = "exited", !.resume = "none",
                                   !.stop = st("exit")],
                 raw |-> 0]
          [] OTHER ->
                [s |-> [r.s EXCEPT !.dbg = "hung"], raw |-> 0])

-----------------------------------------------------------------------------
(* Tracer: src/src/ptrace.rs.  Each call returns the state after it and     *)
(* ok = FALSE for Err.                                                      *)

Panic(S) == [S EXCEPT !.dbg = "panicked"]

\* run F on the state v unless the debugger already panicked or hangs
Then(v, F(_)) == Let(v, LAMBDA x : IF x.dbg # "ok" THEN x ELSE F(x))

\* Result::unwrap on a call that returns a state
Unwrap(v) == Let(v, LAMBDA r : IF r.ok THEN r.s ELSE Panic(r.s))

\* errno_result: Err when the syscall returned a negative value
errno_result(r) == r >= 0

\* a ptrace request on a task that is not in a ptrace stop fails (ESRCH)
PtraceOk(S) == S.tstate = "stopped"

\* the request op reaches the kernel: it is appended to the trace, with the
\* address and the low byte of the word it carries (0 where it has none)
Req(S, op, addr, byte) ==
    [S EXCEPT !.trace = Append(S.trace, [op |-> op, addr |-> addr, byte |-> byte])]

peekdata(S, addr) ==
    LET good == PtraceOk(S) /\ WordMapped(S.mem, addr)
        data == IF good THEN ReadWord(S.mem, addr) ELSE AllOnes
        err == IF good THEN 0 ELSE IF PtraceOk(S) THEN EIO ELSE ESRCH
    IN  [ok |-> ~(err < 0), data |-> data, s |-> Req(S, "peekdata", addr, 0)]

pokedata(S, addr, data) ==
    Let(Req(S, "pokedata", addr, LowByte(data)), LAMBDA S0 :
        IF PtraceOk(S0) /\ WordMapped(S0.mem, addr)
        THEN [ok |-> errno_result(0), s |-> [S0 EXCEPT !.mem = WriteWord(S0.mem, addr, data)]]
        ELSE [ok |-> errno_result(-1), s |-> S0])

cont(S) ==
    Let(Req(S, "cont", 0, 0), LAMBDA S0 :
        IF PtraceOk(S0)
        THEN [ok |-> errno_result(0),
              s |-> [S0 EXCEPT !.tstate = "running", !.resume = "cont",
                               !.snap = [taken |-> TRUE, breakpoints |-> S0.breakpoints,
                                         mem |-> S0.mem, regs |-> S0.regs]]]
        ELSE [ok |-> errno_result(-1), s |-> S0])

singlestep(S) ==
    Let(Req(S, "singlestep", 0, 0), LAMBDA S0 :
        IF PtraceOk(S0)
        THEN [ok |-> errno_result(0), s |-> [S0 EXCEPT !.tstate = "running", !.resume = "step"]]
        ELSE [ok |-> errno_result(-1), s |-> S0])

NoStatus == [tag |-> "none", val |-> 0]

\* waitpid(pid, &status, 0) followed by status.into()
wait(S) ==
    Let(Req(S, "wait", 0, 0), LAMBDA S0 :
    CASE S0.tstate = "running" ->
            Let(RunTarget(S0), LAMBDA r :
            Let(WaitStatusFrom(r.raw), LAMBDA ws :
                IF ws.tag = "panic"
                THEN [ok |-> TRUE, s |-> Panic(r.s), ws |-> ws]
                ELSE [ok |-> errno_result(0), s |-> r.s, ws |-> ws]))
      [] S0.tstate = "stopped" ->
            \* nothing to report: waitpid blocks for ever
            [ok |-> TRUE, s |-> [S0 EXCEPT !.dbg = "hung"], ws |-> NoStatus]
      [] OTHER ->
            \* no such child any more (ECHILD)
            [ok |-> errno_result(-1), s |-> S0, ws |-> NoStatus])

getregs(S) ==
    Let(Req(S, "getregs", 0, 0), LAMBDA S0 :
        IF PtraceOk(S0) THEN [ok |-> errno_result(0), regs |-> S0.regs, s |-> S0]
        ELSE [ok |-> errno_result(-1), regs |-> S0.regs, s |-> S0])

getreg(S, r) ==
    Let(getregs(S), LAMBDA g : [ok |-> g.ok, val |-> get_reg(r, g.regs), s |-> g.s])

setregs(S, rs) ==
    Let(Req(S, "setregs", 0, 0), LAMBDA S0 :
        IF PtraceOk(S0) THEN [ok |-> errno_result(0), s |-> [S0 EXCEPT !.regs = rs]]
        ELSE [ok |-> errno_result(-1), s |-> S0])

\* setreg that writes back a fresh block instead of the one it read
setreg_fresh_block(S, r, val) ==
    Let(getregs(S), LAMBDA g :
        IF ~g.ok THEN [ok |-> FALSE, s |-> g.s]
        ELSE setregs(g.s, set_reg(r, [f \in user_regs_struct |-> 0], val)))

setreg(S, r, val) ==
    Let(getregs(S), LAMBDA g :
        IF ~g.ok THEN [ok |-> FALSE, s |-> g.s]
        ELSE setregs(g.s, set_reg(r, g.regs, val)))

getsiginfo(S) ==
    Let(Req(S, "getsiginfo", 0, 0), LAMBDA S0 :
        IF PtraceOk(S0) THEN [ok |-> errno_result(0), info |-> S0.siginfo, s |-> S0]
        ELSE [ok |-> errno_result(-1), info |-> S0.siginfo, s |-> S0])

\* Target::kill
kill(S) ==
    Let(Req(S, "kill", 0, 0), LAMBDA S0 :
        IF S0.tstate \in {"stopped", "running"}
        THEN [ok |-> errno_result(0), s |-> [S0 EXCEPT !.tstate = "killed", !.resume = "none"]]
        ELSE [ok |-> errno_result(-1), s |-> S0])

-----------------------------------------------------------------------------
(* Breakpoint engine: src/src/debugger.rs, struct Breakpoint *)

\* DbgInfo::frame_for_pc: the frame (file, line, function) of a pc that
\* lies in the program's code
frame_for_pc(pc) ==
    IF pc \in CodePcs
    THEN Ok([file |-> "src/bin/test.rs", line |-> InsAt(pc).line, func |-> InsAt(pc).fn,
             frames |-> IF InsAt(pc).fn \in Functions
                        THEN <<[function |-> Some(InsAt(pc).fn)]>>
                        ELSE <<>>])
    ELSE Err("no frame")

\* the digits of n in the radix, most significant first, no leading zeros
RECURSIVE fmt_radix(_, _)
fmt_radix(n, radix) ==
    IF n < radix THEN <<Digits[n + 1]>>
    ELSE Append(fmt_radix(n \div radix, radix), Digits[(n % radix) + 1])

\* format!("{}", n) and format!("{:x}", n)
fmt_Display(n) == fmt_radix(n, 10)
fmt_LowerHex(n) == fmt_radix(n, 16)

\* a printed line: its fixed text and the number in it as it is rendered,
\* by {} in Msg and by {:x} in MsgHex
Msg(m, a) == [msg |-> m, arg |-> fmt_Display(a)]
MsgHex(m, a) == [msg |-> m, arg |-> fmt_LowerHex(a)]
Say(S, m, a) == [S EXCEPT !.out = Append(S.out, Msg(m, a))]
SayHex(S, m, a) == [S EXCEPT !.out = Append(S.out, MsgHex(m, a))]

Breakpoint_new(addr, source) ==
    [addr |-> addr, saved_data |-> None, source |-> source]

enabled(bp) == is_some(bp.saved_data)

is_internal(bp) == bp.source = "Internal"

\* enable with the word built from the trap byte alone: (INT3_INSTR as u64)
enable_clobber(S, bp) ==
    IF debug_assertions /\ enabled(bp) THEN [s |-> Panic(S), bp |-> bp]
    ELSE Let(peekdata(S, bp.addr), LAMBDA pk :
         IF ~pk.ok THEN [s |-> Panic(pk.s), bp |-> bp]
         ELSE Let(pokedata(pk.s, bp.addr, AddrToWord(INT3_INSTR)), LAMBDA po :
              IF po.ok
              THEN [s |-> po.s, bp |-> [bp EXCEPT !.saved_data = Some(LowByte(pk.data))]]
              ELSE [s |-> po.s, bp |-> bp]))

\* enable that records the saved byte before it knows the write went through
enable_save_first(S, bp) ==
    IF debug_assertions /\ enabled(bp) THEN [s |-> Panic(S), bp |-> bp]
    ELSE Let(peekdata(S, bp.addr), LAMBDA pk :
         IF ~pk.ok THEN [s |-> Panic(pk.s), bp |-> bp]
         ELSE Let(pokedata(pk.s, bp.addr, WithLowByte(pk.data, INT3_INSTR)), LAMBDA po :
              [s |-> po.s, bp |-> [bp EXCEPT !.saved_data = Some(LowByte(pk.data))]]))

\* debug_assert!(cond, msg): the state with msg noted when cond is false;
\* the panic of a build with debug assertions is left to the caller
debug_assert(S, cond, msg) ==
    IF cond THEN S ELSE [S EXCEPT !.violated = @ \cup {msg}]

\* Breakpoint::enable; returns the state and the breakpoint after the call
enable(S, bp) ==
    Let(debug_assert(S, ~enabled(bp), "breakpoint is already enabled"), LAMBDA S0 :
    IF debug_assertions /\ enabled(bp) THEN [s |-> Panic(S0), bp |-> bp]
    ELSE Let(peekdata(S0, bp.addr), LAMBDA pk :
         IF ~pk.ok THEN [s |-> Panic(pk.s), bp |-> bp]
         ELSE LET old_data == pk.data
                  saved == LowByte(old_data)
                  new_data == WithLowByte(old_data, INT3_INSTR)
              IN  Let(pokedata(pk.s, bp.addr, new_data), LAMBDA po :
                  IF po.ok
                  THEN [s |-> po.s, bp |-> [bp EXCEPT !.saved_data = Some(saved)]]
                  ELSE [s |-> po.s, bp |-> bp])))

\* disable that clears the saved byte and leaves the trap in memory
disable_keep_trap(S, bp) ==
    IF debug_assertions /\ ~enabled(bp) THEN [s |-> Panic(S), bp |-> bp]
    ELSE Let(peekdata(S, bp.addr), LAMBDA pk :
         IF ~pk.ok \/ ~is_some(bp.saved_data) THEN [s |-> Panic(pk.s), bp |-> bp]
         ELSE [s |-> pk.s, bp |-> [bp EXCEPT !.saved_data = None]])

\* Breakpoint::disable
disable(S, bp) ==
    Let(debug_assert(S, enabled(bp), "breakpoint is not enabled"), LAMBDA S0 :
    IF debug_assertions /\ ~enabled(bp) THEN [s |-> Panic(S0), bp |-> bp]
    ELSE Let(peekdata(S0, bp.addr), LAMBDA pk :
         IF ~pk.ok THEN [s |-> Panic(pk.s), bp |-> bp]
         ELSE IF ~is_some(bp.saved_data) THEN [s |-> Panic(pk.s), bp |-> bp]
         ELSE LET old_data == pk.data
                  new_data == WithLowByte(old_data, unwrap(bp.saved_data))
              IN  Let(pokedata(pk.s, bp.addr, new_data), LAMBDA po :
                  IF ~po.ok THEN [s |-> Panic(po.s), bp |-> bp]
                  ELSE [s |-> po.s, bp |-> [bp EXCEPT !.saved_data = None]])))

\* HashMap insert / remove
Put(t, k, v) == [x \in (DOMAIN t) \cup {k} |-> IF x = k THEN v ELSE t[x]]
Remove(t, k) == [x \in (DOMAIN t) \ {k} |-> t[x]]
contains_key(t, k) == k \in DOMAIN t

\* call f on the table entry at addr through a &mut reference
WithEntry(S, addr, f(_, _)) ==
    Let(f(S, S.breakpoints[addr]), LAMBDA r :
        [r.s EXCEPT !.breakpoints = Put(S.breakpoints, addr, r.bp)])

-----------------------------------------------------------------------------
(* Debugger core: src/src/debugger.rs, impl Dbg *)

\* set_breakpoint_at_address with insert in place of entry().or_insert_with
set_breakpoint_at_address_insert(S, addr, source) ==
    Let([S EXCEPT !.breakpoints = Put(S.breakpoints, addr, Breakpoint_new(addr, source))],
        LAMBDA S1 : WithEntry(S1, addr, enable))

\* set_breakpoint_at_address without the test of bp.enabled()
set_breakpoint_at_address_always_enable(S, addr, source) ==
    Let(IF contains_key(S.breakpoints, addr) THEN S
        ELSE [S EXCEPT !.breakpoints =
                  Put(S.breakpoints, addr, Breakpoint_new(addr, source))],
        LAMBDA S1 : WithEntry(S1, addr, enable))

\* Dbg::set_breakpoint_at_address
set_breakpoint_at_address(S, addr, source) ==
    Let(IF contains_key(S.breakpoints, addr) THEN S
        ELSE [S EXCEPT !.breakpoints =
                  Put(S.breakpoints, addr, Breakpoint_new(addr, source))],
        LAMBDA S1 :
        IF enabled(S1.breakpoints[addr])
        THEN IF debug_assertions /\ Underflows(addr, load_addr)
             THEN Panic(S1)
             ELSE SayHex(S1, "already have a breakpoint at", SubU64(addr, load_addr))
        ELSE WithEntry(S1, addr, enable))

\* Dbg::set_user_breakpoint
set_user_breakpoint(S, pc) ==
    Then(set_breakpoint_at_address(S, AddU64(load_addr, pc), "User"), LAMBDA S1 :
         IF frame_for_pc(pc).ok THEN Say(S1, "set breakpoint at", pc) ELSE S1)

\* Dbg::set_breakpoint_at_function; indexing an empty Vec panics
set_breakpoint_at_function(S, needle) ==
    LET pc == pc_for_function_pred(needle) IN
    IF pc = None THEN Say(S, "couldn't find function matching", 0)
    ELSE Let(function_lines_from_pc(unwrap(pc)), LAMBDA lines :
         IF Len(lines) > 1 THEN set_user_breakpoint(S, lines[2])
         ELSE IF Len(lines) = 0 THEN Panic(S)
         ELSE set_user_breakpoint(S, lines[1]))

\* disable_breakpoint_at_address that drops the entry it disabled
disable_breakpoint_at_address_remove(S, addr) ==
    IF ~contains_key(S.breakpoints, addr)
    THEN Say(S, "no such breakpoint", 0)
    ELSE Then(disable(S, S.breakpoints[addr]).s, LAMBDA S1 :
              [S1 EXCEPT !.breakpoints = Remove(S1.breakpoints, addr)])

\* Dbg::disable_breakpoint_at_address
disable_breakpoint_at_address(S, addr) ==
    IF ~contains_key(S.breakpoints, addr)
    THEN Say(S, "no such breakpoint", 0)
    ELSE WithEntry(S, addr, disable)

\* Dbg::disable_user_breakpoint
disable_user_breakpoint(S, pc) ==
    disable_breakpoint_at_address(S, AddU64(load_addr, pc))

\* Dbg::get_pc; ok = FALSE is the panic of unwrap
get_pc(S) == getreg(S, "Rip")

\* Dbg::set_pc
set_pc(S, pc) == Unwrap(setreg(S, "Rip", pc))

\* Dbg::get_offset_pc
get_offset_pc(S) ==
    Let(get_pc(S), LAMBDA g :
        [ok |-> g.ok /\ ~(debug_assertions /\ Underflows(g.val, load_addr)),
         val |-> SubU64(g.val, load_addr), s |-> g.s])

\* handle_sigtrap that reports the stop and leaves the PC after the trap byte
handle_sigtrap_no_rollback(S, info) ==
    IF info.code = SI_KERNEL \/ info.code = TRAP_BRKPT
    THEN Let(get_pc(S), LAMBDA g :
         IF ~g.ok THEN Panic(g.s)
         ELSE SayHex(g.s, "hit breakpoint", SubU64(SubU64(g.val, 1), load_addr)))
    ELSE S

\* Dbg::handle_sigtrap
handle_sigtrap(S, info) ==
    LET code == info.code IN
    IF code = SI_KERNEL \/ code = TRAP_BRKPT
    THEN Let(get_pc(S), LAMBDA g :
         IF ~g.ok \/ (debug_assertions /\ Underflows(g.val, 1)) THEN Panic(g.s)
         ELSE LET pc == SubU64(g.val, 1) IN
              Then(set_pc(g.s, pc), LAMBDA S1 :
              LET is_int == IF contains_key(S1.breakpoints, pc)
                            THEN is_internal(S1.breakpoints[pc]) ELSE FALSE
                  offset_pc == SubU64(pc, load_addr)
                  loc == source_for_pc(offset_pc)
              IN  IF debug_assertions /\ Underflows(pc, load_addr) THEN Panic(S1)
                  ELSE Let(IF ~is_int THEN SayHex(S1, "hit breakpoint", offset_pc) ELSE S1,
                           LAMBDA S2 :
                           IF is_some(loc) THEN Say(S2, "source", unwrap(loc).line)
                           ELSE S2)))
    ELSE IF code = TRAP_TRACE THEN S
    ELSE Say(S, "unknown SIGTRAP code", code)

\* step_over_breakpoint working on a copy of the table entry (Breakpoint is
\* Copy): the byte is restored for the step and the entry stays as it was
step_over_breakpoint_on_copy(S) ==
    Let(get_pc(S), LAMBDA g :
        IF ~g.ok THEN Panic(g.s)
        ELSE LET pc == g.val IN
             IF pc = 0 THEN g.s
             ELSE IF contains_key(g.s.breakpoints, pc) /\ enabled(g.s.breakpoints[pc])
             THEN Then(disable(g.s, g.s.breakpoints[pc]).s, LAMBDA S1 :
                  Then(Unwrap(singlestep(S1)), LAMBDA S2 : Unwrap(wait(S2))))
             ELSE g.s)

\* step_over_breakpoint that enables the breakpoint before it waits for the
\* single step
step_over_breakpoint_enable_before_wait(S) ==
    Let(get_pc(S), LAMBDA g :
        IF ~g.ok THEN Panic(g.s)
        ELSE LET pc == g.val IN
             IF pc = 0 THEN g.s
             ELSE IF contains_key(g.s.breakpoints, pc) /\ enabled(g.s.breakpoints[pc])
             THEN Then(WithEntry(g.s, pc, disable), LAMBDA S1 :
                  Then(Unwrap(singlestep(S1)), LAMBDA S2 :
                  Then(WithEntry(S2, pc, enable), LAMBDA S3 :
                       Unwrap(wait(S3)))))
             ELSE g.s)

\* Dbg::step_over_breakpoint
step_over_breakpoint(S) ==
    Let(get_pc(S), LAMBDA g :
        IF ~g.ok THEN Panic(g.s)
        ELSE LET pc == g.val IN
             IF pc = 0 THEN g.s
             ELSE IF contains_key(g.s.breakpoints, pc) /\ enabled(g.s.breakpoints[pc])
             THEN Then(WithEntry(g.s, pc, disable), LAMBDA S1 :
                  Then(Unwrap(singlestep(S1)), LAMBDA S2 :
                  Then(Unwrap(wait(S2)), LAMBDA S3 :
                       WithEntry(S3, pc, enable))))
             ELSE g.s)

\* Dbg::single_step_instruction
single_step_instruction(S) ==
    Let(get_pc(S), LAMBDA g :
        IF ~g.ok THEN Panic(g.s)
        ELSE IF contains_key(g.s.breakpoints, g.val)
        THEN step_over_breakpoint(g.s)
        ELSE Then(Unwrap(singlestep(g.s)), LAMBDA S2 : Unwrap(wait(S2))))

\* Dbg::single_step
single_step(S) == single_step_instruction(S)

\* the dispatch without the return Ok(()) of the Exited arm
dispatch_signal_no_return(S, w) ==
    Let(IF w.ws.tag = "Exited"
        THEN [(IF w.ws.val = 0 THEN Say(S, "program exited", 0)
               ELSE Say(S, "program exited with status", w.ws.val))
              EXCEPT !.running = FALSE]
        ELSE S, LAMBDA S1 :
    Let(getsiginfo(S1), LAMBDA gi :
         IF ~gi.ok THEN [ok |-> FALSE, s |-> gi.s]
         ELSE LET signo == gi.info.signo IN
              IF signo = 0 THEN [ok |-> TRUE, s |-> gi.s]
              ELSE IF signo = SIGTRAP
              THEN [ok |-> TRUE, s |-> handle_sigtrap(gi.s, gi.info)]
              ELSE IF signo = SIGSEGV
              THEN [ok |-> TRUE, s |-> Say(gi.s, "yay segfault", gi.info.code)]
              ELSE [ok |-> TRUE, s |-> Say(gi.s, "got signal", signo)]))

\* the signal dispatch at the end of Dbg::continue_execution
dispatch_signal(S, w) ==
    IF w.ws.tag = "Exited"
    THEN [ok |-> TRUE,
          s |-> [(IF w.ws.val = 0 THEN Say(S, "program exited", 0)
                  ELSE Say(S, "program exited with status", w.ws.val))
                 EXCEPT !.running = FALSE]]
    ELSE Let(getsiginfo(S), LAMBDA gi :
         IF ~gi.ok THEN [ok |-> FALSE, s |-> gi.s]
         ELSE LET signo == gi.info.signo IN
              IF signo = 0 THEN [ok |-> TRUE, s |-> gi.s]
              ELSE IF signo = SIGTRAP
              THEN [ok |-> TRUE, s |-> handle_sigtrap(gi.s, gi.info)]
              ELSE IF signo = SIGSEGV
              THEN [ok |-> TRUE, s |-> Say(gi.s, "yay segfault", gi.info.code)]
              ELSE [ok |-> TRUE, s |-> Say(gi.s, "got signal", signo)])

\* Dbg::continue_execution; ok = FALSE is the Err it returns
continue_execution(S) ==
    Let(step_over_breakpoint(S), LAMBDA S1 :
        IF S1.dbg # "ok" THEN [ok |-> TRUE, s |-> S1]
        ELSE Let(cont(S1), LAMBDA c :
             IF ~c.ok THEN [ok |-> FALSE, s |-> c.s]
             ELSE Let(wait(c.s), LAMBDA w :
                  IF ~w.ok \/ w.s.dbg # "ok" THEN [ok |-> w.ok, s |-> w.s]
                  ELSE dispatch_signal(w.s, w))))

\* Dbg::get_current_return_address; ok = FALSE is the panic of unwrap
get_current_return_address(S) ==
    Let(getreg(S, "Rbp"), LAMBDA g :
        IF ~g.ok THEN [ok |-> FALSE, val |-> 0, s |-> g.s]
        ELSE Let(peekdata(g.s, AddU64(g.val, 8)), LAMBDA pk :
             [ok |-> pk.ok, val |-> WordToAddr(pk.data), s |-> pk.s]))

\* ensure_breakpoint that queues the address for deletion whether or not it
\* created the entry
ensure_breakpoint_always_push(S, addr) ==
    Then(IF ~contains_key(S.breakpoints, addr)
         THEN set_breakpoint_at_address(S, addr, "Internal")
         ELSE S, LAMBDA S1 :
         [S1 EXCEPT !.to_delete = Append(S1.to_delete, addr),
                    !.transient = S1.transient \cup {addr}])

\* TempBreakpoints::ensure_breakpoint
ensure_breakpoint(S, addr) ==
    IF ~contains_key(S.breakpoints, addr)
    THEN Then(set_breakpoint_at_address(S, addr, "Internal"), LAMBDA S1 :
              [S1 EXCEPT !.to_delete = Append(S1.to_delete, addr),
                         !.transient = S1.transient \cup {addr}])
    ELSE S

RECURSIVE delete_all(_)

\* delete_all that tears down the first transient breakpoint only
delete_all_first_only(S) ==
    IF S.to_delete = <<>> THEN S
    ELSE LET addr == Head(S.to_delete)
             bp == S.breakpoints[addr]
         IN  Let([S EXCEPT !.to_delete = <<>>,
                           !.breakpoints = Remove(S.breakpoints, addr)],
                 LAMBDA S1 : IF enabled(bp) THEN disable(S1, bp).s ELSE S1)

\* delete_all that disables every entry it removes, enabled or not
delete_all_always_disable(S) ==
    IF S.to_delete = <<>> THEN S
    ELSE LET addr == Head(S.to_delete) IN
         IF ~contains_key(S.breakpoints, addr)
         THEN Panic([S EXCEPT !.to_delete = Tail(S.to_delete)])
         ELSE LET bp == S.breakpoints[addr] IN
              Let([S EXCEPT !.to_delete = Tail(S.to_delete),
                            !.breakpoints = Remove(S.breakpoints, addr)],
                  LAMBDA S1 : Then(disable(S1, bp).s, delete_all))

\* delete_all that drops the entries and never disables them
delete_all_no_disable(S) ==
    [S EXCEPT !.to_delete = <<>>,
              !.breakpoints = [a \in (DOMAIN S.breakpoints) \ {S.to_delete[i] : i \in 1..Len(S.to_delete)}
                                 |-> S.breakpoints[a]]]

\* TempBreakpoints::delete_all
delete_all(S) ==
    IF S.to_delete = <<>> THEN S
    ELSE LET addr == Head(S.to_delete) IN
         IF ~contains_key(S.breakpoints, addr)
         THEN Panic([S EXCEPT !.to_delete = Tail(S.to_delete)])
         ELSE LET bp == S.breakpoints[addr] IN
              Let([S EXCEPT !.to_delete = Tail(S.to_delete),
                            !.breakpoints = Remove(S.breakpoints, addr)],
                  LAMBDA S1 :
                  Then(IF enabled(bp) THEN disable(S1, bp).s ELSE S1, delete_all))

\* Dbg::step_out
step_out(S) ==
    Let(get_current_return_address(S), LAMBDA ra :
        IF ~ra.ok THEN Panic(ra.s)
        ELSE Then(ensure_breakpoint(ra.s, ra.val), LAMBDA S1 :
             Then(Unwrap(continue_execution(S1)), delete_all)))

\* most instructions one step command executes
MaxSteps == 24

\* the iteration that took S to T changed nothing but the trace: every
\* later iteration does the same
NoProgress(S, T) == [T EXCEPT !.trace = <<>>] = [S EXCEPT !.trace = <<>>]

\* the loop of Dbg::step_in
RECURSIVE step_in_loop(_, _, _)
step_in_loop(S, old, fuel) ==
    Then(single_step_instruction(S), LAMBDA S1 :
    Let(get_offset_pc(S1), LAMBDA o :
        IF ~o.ok THEN Panic(o.s)
        ELSE LET loc == source_for_pc(o.val) IN
             IF loc # old
             THEN IF is_some(loc) THEN Say(o.s, "source", unwrap(loc).line) ELSE o.s
             ELSE IF NoProgress(S, o.s) \/ fuel = 0 THEN [o.s EXCEPT !.dbg = "hung"]
             ELSE step_in_loop(o.s, old, fuel - 1)))

\* Dbg::step_in
step_in(S) ==
    Let(get_offset_pc(S), LAMBDA o :
        IF ~o.ok THEN Panic(o.s)
        ELSE Let(source_for_pc(o.val), LAMBDA old : step_in_loop(o.s, old, MaxSteps)))

\* the loop of Dbg::step_over over the line starts
RECURSIVE ensure_lines(_, _, _)
ensure_lines(S, locs, start_line) ==
    IF locs = <<>> THEN S
    ELSE LET line_pc == Head(locs) IN
         Then(IF line_pc # start_line
              THEN ensure_breakpoint(S, AddU64(load_addr, line_pc))
              ELSE S,
              LAMBDA S1 : Let(Tail(locs), LAMBDA rest : ensure_lines(S1, rest, start_line)))

\* Dbg::step_over
step_over(S) ==
    Let(get_offset_pc(S), LAMBDA o :
        IF ~o.ok THEN Panic(o.s)
        ELSE LET pc == o.val IN
             Let(function_lines_from_pc(pc), LAMBDA locs :
             Then(ensure_lines(o.s, locs, pc), LAMBDA S1 :
             Let(get_current_return_address(S1), LAMBDA ra :
                 IF ~ra.ok THEN Panic(ra.s)
                 ELSE Then(ensure_breakpoint(ra.s, ra.val), LAMBDA S2 :
                      Then(Unwrap(continue_execution(S2)), delete_all))))))

\* kill_target_if_running with the test of running inverted
kill_target_if_not_running(S) ==
    IF ~S.running THEN kill(S).s ELSE S

\* Dbg::kill_target_if_running; the result of kill is dropped
kill_target_if_running(S) ==
    IF S.running THEN kill(S).s ELSE S

-----------------------------------------------------------------------------
(* Command dispatch *)

\* an Err that reaches the command loop is printed and the loop goes on
report_error(v) == Let(v, LAMBDA r : IF r.ok THEN r.s ELSE Say(r.s, "error", 0))

\* Dbg::handle_command
\* the variants of enum Reg in declaration order (enum_iterator::all)
all_Reg ==
    <<"Rax", "Rbx", "Rcx", "Rdx", "Rdi", "Rsi", "Rbp", "Rsp", "R8", "R9",
      "R10", "R11", "R12", "R13", "R14", "R15", "Rip", "Rflags", "Cs",
      "Orig_rax", "Fs_base", "Gs_base", "Fs", "Gs", "Ss", "Ds", "Es">>

\* the name of register r in its descriptor
Reg_name(r) == REGS[CHOOSE i \in 1..Len(REGS) : REGS[i].reg = r].name

\* format!("{:016x}", n)
RECURSIVE pad16(_)
pad16(ds) == IF Len(ds) >= 16 THEN ds ELSE pad16(<<"0">> \o ds)

fmt_LowerHex16(n) == pad16(fmt_LowerHex(n))

\* the lines of dump_registers for the registers from the i-th on
RECURSIVE dump_lines(_, _)
dump_lines(rs, i) ==
    IF i > Len(all_Reg) THEN <<>>
    ELSE <<[msg |-> "reg", name |-> Reg_name(all_Reg[i]),
            arg |-> fmt_LowerHex16(get_reg(all_Reg[i], rs))]>> \o dump_lines(rs, i + 1)

\* Dbg::dump_registers
dump_registers(S) ==
    Let(getregs(S), LAMBDA g :
        IF ~g.ok THEN Panic(g.s)
        ELSE [g.s EXCEPT !.out = @ \o dump_lines(g.regs, 1)])

\* read_register that steps the target before it reads
read_register_after_step(S, r) ==
    Then(Then(Unwrap(singlestep(S)), LAMBDA S2 : Unwrap(wait(S2))), LAMBDA S3 :
    Let(getreg(S3, r), LAMBDA g :
        IF ~g.ok THEN Panic(g.s) ELSE SayHex(g.s, "0x", g.val)))

\* Dbg::read_register
read_register(S, r) ==
    Let(getreg(S, r), LAMBDA g :
        IF ~g.ok THEN Panic(g.s) ELSE SayHex(g.s, "0x", g.val))

\* the ELF symbol table of the target, names demangled
Symbol(type_, sym_name, addr) == [type_ |-> type_, name |-> sym_name, addr |-> addr]

Symbols == <<
    Symbol("func", "_start", ImgOff),
    Symbol("func", "test::main", ImgOff + 3),
    Symbol("func", "test::f", ImgOff + 10),
    Symbol("func", "main", ImgOff + 3)
>>

\* DbgInfo::lookup_symbol: every symbol whose demangled name is the needle
lookup_symbol(needle) == SelectSeq(Symbols, LAMBDA sym : sym.name = needle)

\* the symbol command: one line per matching symbol
symbol_command(S, needle) ==
    LET found == lookup_symbol(needle)
    IN  [S EXCEPT !.out = @ \o [i \in 1..Len(found) |->
                                   [msg |-> found[i].type_, name |-> found[i].name,
                                    arg |-> fmt_LowerHex(found[i].addr)]]]

\* cli::print_help
print_help(S) == Say(S, "help", 0)

\* Dbg::write_register
write_register(S, r, val) == Unwrap(setreg(S, r, val))

\* FunctionName::demangle of the raw names of the two subprograms
demangle(f) ==
    CASE f = "main" -> <<"t", "e", "s", "t", ":", ":", "m", "a", "i", "n">>
      [] f = "f"    -> <<"t", "e", "s", "t", ":", ":", "f">>

\* the line printed for a frame: its number, its pc in hex, and the
\* function when there is frame info
Frame(frame_num, pc, func) ==
    [msg |-> "frame", num |-> fmt_Display(frame_num), arg |-> fmt_LowerHex(pc),
     func |-> func]

\* backtrace_print_frame that goes on past main
backtrace_print_frame_past_main(S, frame_num, pc) ==
    LET frame == frame_for_pc(pc)
    IN  IF frame.ok
        THEN [s |-> [S EXCEPT !.out = Append(S.out, Frame(frame_num, pc, Some(frame.val.func)))],
              done |-> frame.val.frames = <<>>]
        ELSE [s |-> [S EXCEPT !.out = Append(S.out, Frame(frame_num, pc, None))],
              done |-> TRUE]

\* Dbg::backtrace_print_frame: done is "should stop continuing"
backtrace_print_frame(S, frame_num, pc) ==
    LET frame == frame_for_pc(pc)
    IN  IF frame.ok
        THEN [s |-> [S EXCEPT !.out = Append(S.out, Frame(frame_num, pc, Some(frame.val.func)))],
              done |-> IF frame.val.frames = <<>> THEN TRUE
                       ELSE LET outer == frame.val.frames[Len(frame.val.frames)]
                            IN  IF is_some(outer.function)
                                THEN LET fname == demangle(unwrap(outer.function))
                                     IN  \/ fname = <<"m", "a", "i", "n">>
                                         \/ ends_with(fname, <<":", ":", "m", "a", "i", "n">>)
                                ELSE FALSE]
        ELSE [s |-> [S EXCEPT !.out = Append(S.out, Frame(frame_num, pc, None))],
              done |-> TRUE]

\* Dbg::get_prev_frame; fp + 8 overflows for the all-ones word, the one
\* value at or above AddrLimit a frame pointer takes
get_prev_frame(S, fp) ==
    Let(peekdata(S, fp), LAMBDA p1 :
        IF ~p1.ok THEN [ok |-> FALSE, fp |-> 0, ra |-> 0, s |-> p1.s]
        ELSE IF debug_assertions /\ fp >= AddrLimit
        THEN [ok |-> FALSE, fp |-> 0, ra |-> 0, s |-> p1.s]
        ELSE Let(peekdata(p1.s, AddU64(fp, 8)), LAMBDA p2 :
             [ok |-> p2.ok, fp |-> WordToAddr(p1.data), ra |-> WordToAddr(p2.data),
              s |-> p2.s]))

\* the loop of print_backtrace
RECURSIVE backtrace_loop(_, _, _, _)
backtrace_loop(S, frame_num, pc, fp) ==
    Let(backtrace_print_frame(S, frame_num, pc), LAMBDA f :
    Let(get_prev_frame(f.s, fp), LAMBDA p :
        IF ~p.ok THEN Panic(p.s)
        ELSE IF debug_assertions /\ Underflows(p.ra, load_addr) THEN Panic(p.s)
        ELSE IF f.done THEN p.s
        ELSE backtrace_loop(p.s, frame_num + 1, SubU64(p.ra, load_addr), p.fp)))

\* Dbg::print_backtrace
print_backtrace(S) ==
    Let(get_offset_pc(S), LAMBDA o :
        IF ~o.ok THEN Panic(o.s)
        ELSE Let(getreg(o.s, "Rbp"), LAMBDA g :
             IF ~g.ok THEN Panic(g.s)
             ELSE backtrace_loop(g.s, 1, o.val, g.val)))

handle_command(S, c) ==
    CASE c.name = "continue" -> report_error(continue_execution(S))
      [] c.name = "break"    -> set_user_breakpoint(S, c.pc)
      [] c.name = "break_fn" -> set_breakpoint_at_function(S, c.fn)
      [] c.name = "disable"  -> disable_user_breakpoint(S, c.pc)
      [] c.name = "register_write" -> write_register(S, c.reg, c.val)
      [] c.name = "backtrace" -> print_backtrace(S)
      [] c.name = "register_dump" -> dump_registers(S)
      [] c.name = "register_read" -> read_register(S, c.reg)
      [] c.name = "symbol" -> symbol_command(S, c.sym)
      [] c.name = "help" -> print_help(S)
      [] c.name = "stepi"    -> single_step(S)
      [] c.name = "finish"   -> step_out(S)
      [] c.name = "step"     -> step_in(S)
      [] c.name = "next"     -> step_over(S)
      [] OTHER               -> S

-----------------------------------------------------------------------------
(* The state machine *)

\* load addresses found by get_load_address: the target is a
\* position-independent executable
LoadAddrs == {32}

\* ELF-relative addresses the user names in break and disable: the
\* instruction that ends the program, the return address of the call in
\* main, a padding byte, an instruction of f whose word covers no other of
\* them, and an address that is not mapped
BreakPcs == {ImgOff + 1, ImgOff + 6, ImgOff + 9, ImgOff + 12, 0}

NoStop == [kind |-> "none", pc |-> 0, at |-> 0, via |-> "none"]

\* no PTRACE_CONT was issued by the command
NoSnap == [taken |-> FALSE, breakpoints |-> <<>>, mem |-> <<>>, regs |-> <<>>]

Command(n, pc) == [name |-> n, pc |-> pc]

\* the commands that resume the target
Resuming == {"continue", "stepi", "step", "next", "finish"}

\* the machine state as one record, at the start of command c
Start(c) ==
    [mem |-> mem, regs |-> regs, tstate |-> tstate, resume |-> resume,
     siginfo |-> siginfo, running |-> running, breakpoints |-> breakpoints,
     to_delete |-> <<>>, transient |-> {}, dbg |-> dbg, cmd |-> c,
     out |-> <<>>, stop |-> NoStop, nexec |-> 0, trace |-> <<>>, snap |-> NoSnap,
     violated |-> {}]

Commit(R) ==
    /\ mem' = R.mem
    /\ regs' = R.regs
    /\ tstate' = R.tstate
    /\ resume' = R.resume
    /\ siginfo' = R.siginfo
    /\ running' = R.running
    /\ breakpoints' = R.breakpoints
    /\ to_delete' = R.to_delete
    /\ transient' = R.transient
    /\ dbg' = R.dbg
    /\ cmd' = R.cmd
    /\ out' = R.out
    /\ stop' = R.stop
    /\ nexec' = R.nexec
    /\ trace' = R.trace
    /\ snap' = R.snap
    /\ violated' = R.violated
    /\ resumed' = (resumed \/ R.cmd.name \in Resuming)
    /\ UNCHANGED <<load_addr, debug_assertions, input, result>>

\* the registers of the target in its initial stop
InitialRegs ==
    [f \in user_regs_struct |->
        CASE f = "rip" -> load_addr + ImgOff
          [] f = "rsp" -> MemBase(load_addr) + MemLen
          [] OTHER -> 0]

\* Dbg::new: the target sits in its initial stop, nothing is set
InitMachine ==
    /\ load_addr \in LoadAddrs
    /\ debug_assertions \in BOOLEAN
    /\ mem = Image(load_addr)
    /\ regs = InitialRegs
    /\ tstate = "stopped"
    /\ resume = "none"
    /\ siginfo = [signo |-> SIGTRAP, code |-> 0]
    /\ running = TRUE
    /\ breakpoints = <<>>
    /\ to_delete = <<>>
    /\ transient = {}
    /\ dbg = "ok"
    /\ cmd = Command("none", 0)
    /\ out = <<>>
    /\ stop = NoStop
    /\ nexec = 0
    /\ trace = <<>>
    /\ snap = NoSnap
    /\ violated = {}
    /\ resumed = FALSE

Init ==
    /\ InitMachine
    /\ input = <<>>
    /\ result = <<>>

\* one pass of the command loop of run: the command c is handled
Do(c) == \E S \in {Start(c)} : \E R \in {handle_command(S, c)} : Commit(R)

Break ==
    \E pc \in BreakPcs :
        /\ dbg = "ok"
        /\ Do(Command("break", pc))

Disable ==
    \E pc \in BreakPcs :
        /\ dbg = "ok"
        /\ Do(Command("disable", pc))

Continue ==
    /\ dbg = "ok"
    /\ Do(Command("continue", 0))

Stepi ==
    /\ dbg = "ok"
    /\ Do(Command("stepi", 0))

Step ==
    /\ dbg = "ok"
    /\ Do(Command("step", 0))

StepOver ==
    /\ dbg = "ok"
    /\ Do(Command("next", 0))

Finish ==
    /\ dbg = "ok"
    /\ Do(Command("finish", 0))

\* quit or EOF: leave the loop, kill the target if running
Quit ==
    /\ dbg = "ok"
    /\ \E S \in {Start(Command("quit", 0))} :
           \E R \in {kill_target_if_running(S)} : Commit([R EXCEPT !.dbg = "quit"])

\* end of input at the prompt: leave the loop as quit does
Eof ==
    /\ dbg = "ok"
    /\ \E S \in {Start(Command("eof", 0))} :
           \E R \in {kill_target_if_running(S)} : Commit([R EXCEPT !.dbg = "quit"])

Next ==
    \/ Break
    \/ Disable
    \/ Continue
    \/ Stepi
    \/ Step
    \/ StepOver
    \/ Finish
    \/ Quit
    \/ Eof

Spec == Init /\ [][Next]_vars

-----------------------------------------------------------------------------
(* The pure functions, applied to inputs drawn by the initial state *)

machine_vars ==
    <<mem, regs, tstate, resume, siginfo, load_addr, running, breakpoints,
      to_delete, transient, dbg, cmd, out, stop, debug_assertions,
      nexec, trace, snap, violated, resumed>>

\* every spelling of s with some of its characters in upper case
Spellings(s) ==
    {[i \in 1..Len(s) |-> IF i \in M THEN to_ascii_uppercase(s[i]) ELSE s[i]] :
        M \in SUBSET (1..Len(s))}

\* the register names a user may type: every spelling of every name, and
\* the lower-case form of every identifier of Reg
RegInputs ==
    UNION {Spellings(REGS[i].name) : i \in 1..Len(REGS)}
        \cup {str_to_ascii_lowercase(Ident[r]) : r \in Reg}

InitReg ==
    /\ InitMachine
    /\ input \in RegInputs
    /\ result = <<>>

\* cli::parse_reg: s.try_into()
ParseReg ==
    /\ result = <<>>
    /\ result' = <<try_from(input)>>
    /\ UNCHANGED <<input, machine_vars>>

NextReg == ParseReg

SpecReg == InitReg /\ [][NextReg]_vars

\* raw wait status words: every c_int from -MaxRaw - 1 to MaxRaw
MaxRaw == 2047
RawStatuses == (-MaxRaw - 1)..MaxRaw

InitWait ==
    /\ InitMachine
    /\ input \in RawStatuses
    /\ result = <<>>

\* Target::wait: status.into()
Decode ==
    /\ result = <<>>
    /\ result' = <<WaitStatusFrom(input)>>
    /\ UNCHANGED <<input, machine_vars>>

NextWait == Decode

SpecWait == InitWait /\ [][NextWait]_vars

\* arguments of break: every string of at most MaxArgLen characters drawn
\* from a hex prefix, a digit, a hex letter, a plain letter, ':' and '+'
MaxArgLen == 4
LocChars == {"0", "x", "f", "g", ":", "+"}
LocInputs == UNION {[1..n -> LocChars] : n \in 0..MaxArgLen}

InitLoc ==
    /\ InitMachine
    /\ input \in LocInputs
    /\ result = <<>>

\* clap's value_parser of Command::Break: BreakpointLoc::parse
ParseLoc ==
    /\ result = <<>>
    /\ result' = <<BreakpointLoc_parse(input)>>
    /\ UNCHANGED <<input, machine_vars>>

NextLoc == ParseLoc

SpecLoc == InitLoc /\ [][NextLoc]_vars

\* DWARF register numbers given to from_dwarf and dwarf_to_reg
MaxDwarfReg == 127
DwarfInputs == 0..MaxDwarfReg

InitDwarf ==
    /\ InitMachine
    /\ input \in DwarfInputs
    /\ result = <<>>

\* Reg::from_dwarf and ret_addr::dwarf_to_reg applied to the number
MapDwarf ==
    /\ result = <<>>
    /\ result' = <<from_dwarf(input), dwarf_to_reg(input)>>
    /\ UNCHANGED <<input, machine_vars>>

NextDwarf == MapDwarf

SpecDwarf == InitDwarf /\ [][NextDwarf]_vars

\* names the user gives to break: the two functions, the namespace of the
\* crate, a type, and a name the debug information does not have
FnNames == {"main", "f", "test", "u64", "g"}

\* break <name>
BreakFunction ==
    \E fname \in FnNames :
        /\ dbg = "ok"
        /\ Do([name |-> "break_fn", pc |-> 0, fn |-> fname])

\* function breakpoints in a session of stepi and continue
NextFn ==
    \/ BreakFunction
    \/ Stepi
    \/ Continue

SpecFn == Init /\ [][NextFn]_vars

\* values the user writes to a register
RegVals == {1, AddrLimit}

\* register writes of one session
MaxWrites == 2

\* the fields of the block that differ from the initial stop
Written == {f \in user_regs_struct : regs[f] # InitialRegs[f]}

\* register write <reg> <val>
WriteRegister ==
    \E r \in Reg, v \in RegVals :
        /\ dbg = "ok"
        /\ tstate = "stopped" => Cardinality(Written) < MaxWrites
        /\ Do([name |-> "register_write", pc |-> 0, reg |-> r, val |-> v])

\* register writes in a session that may continue the target
NextSetReg ==
    \/ WriteRegister
    \/ Continue

SpecSetReg == Init /\ [][NextSetReg]_vars

\* backtrace
Backtrace ==
    /\ dbg = "ok"
    /\ Do(Command("backtrace", 0))

\* backtraces in a session of breakpoints, stepi and continue
NextBt ==
    \/ Break
    \/ Stepi
    \/ Continue
    \/ Backtrace

SpecBt == Init /\ [][NextBt]_vars

\* register dump
DumpRegisters ==
    /\ dbg = "ok"
    /\ Do(Command("register_dump", 0))

\* registers the user reads: the PC, the frame pointer, and the register
\* whose name is not its identifier
RegsRead == {"Rip", "Rbp", "Rflags"}

\* register read <reg>
ReadRegister ==
    \E r \in RegsRead :
        /\ dbg = "ok"
        /\ Do([name |-> "register_read", pc |-> 0, reg |-> r])

\* names the user gives to symbol: two that the table has, one of them
\* twice over, and one it has not
SymbolNames == {"test::f", "main", "g"}

\* symbol <name>
LookupSymbol ==
    \E n \in SymbolNames :
        /\ dbg = "ok"
        /\ Do([name |-> "symbol", pc |-> 0, sym |-> n])

\* help
Help ==
    /\ dbg = "ok"
    /\ Do(Command("help", 0))

\* the commands that inspect, in a session with breakpoints, stepi and
\* continue
NextInspect ==
    \/ Break
    \/ Disable
    \/ Stepi
    \/ Continue
    \/ DumpRegisters
    \/ ReadRegister
    \/ LookupSymbol
    \/ Backtrace
    \/ Help

SpecInspect == Init /\ [][NextInspect]_vars

TypeOK ==
    /\ dbg \in {"ok", "panicked", "hung", "quit"}
    /\ tstate \in {"stopped", "exited", "killed"}
    /\ \A a \in DOMAIN mem : mem[a] \in Byte

-----------------------------------------------------------------------------
(* Vocabulary of the properties *)

\* the current machine state as a record
Cur ==
    [mem |-> mem, regs |-> regs, tstate |-> tstate, resume |-> resume,
     siginfo |-> siginfo, running |-> running, breakpoints |-> breakpoints,
     to_delete |-> to_delete, transient |-> transient, dbg |-> dbg, cmd |-> cmd,
     out |-> out, stop |-> stop, nexec |-> nexec, trace |-> trace, snap |-> snap,
     violated |-> violated]

\* the debugger waits for a command and the target is alive (in a ptrace stop)
AtPrompt == dbg = "ok"
Alive == tstate = "stopped"

\* the program image as loaded, before any breakpoint was written
Orig == Image(load_addr)

\* peekdata(a) & 0xff in the current state
PeekLow(a) == LowByte(peekdata(Cur, a).data)

Printed(m, a) == \E i \in 1..Len(out) : out[i] = MsgHex(m, a)

-----------------------------------------------------------------------------
(* Breakpoint engine properties *)

\* C1: at the prompt with the target alive, every enabled breakpoint of the
\* table has the trap byte 0xCC as the low byte of the word at its address
C1_EnabledHoldsTrap ==
    (AtPrompt /\ Alive) =>
        \A a \in DOMAIN breakpoints :
            enabled(breakpoints[a]) => PeekLow(a) = INT3_INSTR

\* a stepi resumed from an enabled breakpoint, which is enabled again
C1_Witness ==
    /\ AtPrompt /\ Alive
    /\ cmd.name = "stepi" /\ stop.kind = "trace"
    /\ stop.at \in DOMAIN breakpoints
    /\ enabled(breakpoints[stop.at])
    /\ regs.rip # stop.at

\* the address a break or disable command names
CmdAddr(c) == AddU64(load_addr, c.pc)

\* this step is a break command that enables the breakpoint at a
EnableStep(a) ==
    /\ dbg = "ok" /\ dbg' = "ok"
    /\ cmd'.name = "break" /\ a = CmdAddr(cmd')
    /\ ~(a \in DOMAIN breakpoints /\ enabled(breakpoints[a]))
    /\ a \in DOMAIN breakpoints' /\ enabled(breakpoints'[a])

\* this step is a disable command on the enabled breakpoint at a
DisableStep(a) ==
    /\ dbg = "ok" /\ dbg' = "ok"
    /\ cmd'.name = "disable" /\ a = CmdAddr(cmd')
    /\ a \in DOMAIN breakpoints /\ enabled(breakpoints[a])

\* C2: enable saves the low byte of the word; disable of an enabled
\* breakpoint writes the saved byte back as the low byte, the rest of the
\* word as it was, and clears the saved byte, so that disable after enable
\* leaves the word as it was before enable
C2_DisableRestoresSaved ==
    [][\A a \in {CmdAddr(cmd')} :
          /\ EnableStep(a) =>
                /\ breakpoints'[a].saved_data = Some(LowByte(ReadWord(mem, a)))
                /\ ReadWord(mem, a) =
                       WithLowByte(ReadWord(mem', a), unwrap(breakpoints'[a].saved_data))
          /\ DisableStep(a) =>
                /\ LowByte(ReadWord(mem', a)) = unwrap(breakpoints[a].saved_data)
                /\ ReadWord(mem', a) =
                       WithLowByte(ReadWord(mem, a), unwrap(breakpoints[a].saved_data))
                /\ breakpoints'[a].saved_data = None]_vars

\* a disable command has run on an entry of the table, the program byte is back
C2_Witness ==
    /\ AtPrompt /\ Alive
    /\ cmd.name = "disable" /\ out = <<>>
    /\ CmdAddr(cmd) \in DOMAIN breakpoints
    /\ ~enabled(breakpoints[CmdAddr(cmd)])
    /\ mem[CmdAddr(cmd)] = Orig[CmdAddr(cmd)]
    /\ mem[CmdAddr(cmd)] # INT3_INSTR

\* C3: break and disable (one enable, one disable) change no byte of target
\* memory but the one at the breakpoint address: the seven upper bytes of
\* its word are written back as read, a neighbouring trap byte included
C3_OnlyLowByteChanges ==
    [][(dbg = "ok" /\ cmd'.name \in {"break", "disable"}) =>
          /\ DOMAIN mem' = DOMAIN mem
          /\ \A x \in DOMAIN mem : x # CmdAddr(cmd') => mem'[x] = mem[x]]_vars

\* a break has enabled a breakpoint whose word covers another enabled one
C3_Witness ==
    /\ AtPrompt /\ Alive
    /\ cmd.name = "break"
    /\ ~Printed("already have a breakpoint at", cmd.pc)
    /\ CmdAddr(cmd) \in DOMAIN breakpoints
    /\ enabled(breakpoints[CmdAddr(cmd)])
    /\ \E b \in DOMAIN breakpoints :
          /\ b > CmdAddr(cmd) /\ b <= CmdAddr(cmd) + 7
          /\ enabled(breakpoints[b])
          /\ mem[b] = INT3_INSTR

\* C4: every entry of the table sits under its own address, and a break at
\* an address whose entry is enabled prints "already have a breakpoint" and
\* changes neither the table (the saved byte) nor target memory
C4_BreakOnEnabledIsNoOp ==
    [][(dbg = "ok" /\ cmd'.name = "break") =>
          /\ \A k \in DOMAIN breakpoints' : breakpoints'[k].addr = k
          /\ \A a \in {CmdAddr(cmd')} :
                (a \in DOMAIN breakpoints /\ enabled(breakpoints[a])) =>
                    /\ dbg' = "ok"
                    /\ \E i \in 1..Len(out') :
                          out'[i] = MsgHex("already have a breakpoint at", cmd'.pc)
                    /\ breakpoints' = breakpoints
                    /\ mem' = mem]_vars

\* a break was asked at an address that already had an enabled breakpoint
C4_Witness ==
    /\ AtPrompt /\ Alive
    /\ cmd.name = "break"
    /\ Printed("already have a breakpoint at", cmd.pc)
    /\ enabled(breakpoints[CmdAddr(cmd)])

\* C5: at the prompt the table holds no Internal breakpoint; after step_over
\* or step_out returned the transient set is empty, and every address it
\* held is out of the table with the program byte back in memory
C5_TransientsTornDown ==
    /\ AtPrompt => \A k \in DOMAIN breakpoints : ~is_internal(breakpoints[k])
    /\ (AtPrompt /\ cmd.name \in {"next", "finish"}) =>
          /\ to_delete = <<>>
          /\ \A a \in transient :
                /\ a \notin DOMAIN breakpoints
                /\ (Alive /\ a \in DOMAIN mem) => mem[a] = Orig[a]

\* a step_over that set several transient breakpoints and stopped at one
C5_Witness ==
    /\ AtPrompt /\ Alive
    /\ cmd.name = "next"
    /\ Cardinality(transient) >= 2
    /\ stop.kind = "brk" /\ stop.at \in transient

\* C6: when the last resume of a command ended in a software-breakpoint stop
\* (SIGTRAP, si_code SI_KERNEL), the PC at the prompt is the reported PC minus
\* one, the address of the trap byte that was hit
C6_PcRolledBack ==
    (AtPrompt /\ stop.kind = "brk") =>
        /\ regs.rip = stop.pc - 1
        /\ regs.rip = stop.at

\* a continue has hit an enabled breakpoint
C6_Witness ==
    /\ AtPrompt /\ Alive
    /\ cmd.name = "continue"
    /\ stop.kind = "brk" /\ stop.via = "cont"
    /\ regs.rip \in DOMAIN breakpoints
    /\ enabled(breakpoints[regs.rip])

\* the last resume of the last command ended in a breakpoint stop
HitBreakpoint == AtPrompt /\ Alive /\ stop.kind = "brk"

\* C7 as stated: after a breakpoint was hit and the command returned, the
\* original byte is in memory at the breakpoint address
C7_OriginalByteInMemory ==
    HitBreakpoint => mem[stop.at] = Orig[stop.at]

\* C7 amended: after a breakpoint was hit and the command returned, an entry
\* still enabled at that address (a User breakpoint) has the trap byte in
\* memory and the original byte in its saved byte; with no enabled entry
\* there (a transient breakpoint, torn down) memory holds the original byte
C7_OriginalByteSavedOrInMemory ==
    HitBreakpoint =>
        IF stop.at \in DOMAIN breakpoints /\ enabled(breakpoints[stop.at])
        THEN /\ mem[stop.at] = INT3_INSTR
             /\ breakpoints[stop.at].saved_data = Some(Orig[stop.at])
        ELSE mem[stop.at] = Orig[stop.at]

\* a step_out or step_over has stopped at one of its transient breakpoints
C7_Witness ==
    /\ HitBreakpoint
    /\ stop.at \in transient
    /\ Orig[stop.at] # INT3_INSTR

\* C8 as stated: the saved byte is present exactly when the byte at the
\* address is the trap byte
C8_SavedIffTrap ==
    (AtPrompt /\ Alive) =>
        \A a \in DOMAIN breakpoints :
            enabled(breakpoints[a]) <=> PeekLow(a) = INT3_INSTR

\* C8 amended: an enabled entry has the trap byte at its address; a disabled
\* entry has the program's own byte there, which is 0xCC where the program
\* itself holds an int3
C8_SavedImpliesTrap ==
    (AtPrompt /\ Alive) =>
        \A a \in DOMAIN breakpoints :
            /\ enabled(breakpoints[a]) => PeekLow(a) = INT3_INSTR
            /\ (~enabled(breakpoints[a]) /\ a \in DOMAIN mem) => mem[a] = Orig[a]

\* a disabled entry at an address where the program itself has 0xCC
C8_Witness ==
    /\ AtPrompt /\ Alive
    /\ \E a \in DOMAIN breakpoints :
          /\ ~enabled(breakpoints[a])
          /\ a \in DOMAIN mem
          /\ mem[a] = INT3_INSTR

-----------------------------------------------------------------------------
(* Register names and wait status *)

HasUpper(s) == \E i \in 1..Len(s) : s[i] \notin DOMAIN AsciiUpper /\ s[i] \in {AsciiUpper[c] : c \in DOMAIN AsciiUpper}

Matching(raw) ==
    {t \in {"Exited", "Signaled", "Stopped"} :
        \/ t = "Exited" /\ WIFEXITED(raw)
        \/ t = "Signaled" /\ WIFSIGNALED(raw)
        \/ t = "Stopped" /\ WIFSTOPPED(raw)}

\* C10 as stated: every raw wait status decodes to exactly one of Exited,
\* Signaled, Stopped: none matches no variant, none matches more than one
C10_ExactlyOneVariant ==
    result # <<>> =>
        /\ Cardinality(Matching(input)) = 1
        /\ result[1].tag \in Matching(input)

\* C10 amended: no raw wait status matches more than one variant; one whose
\* low byte is not 0xFF matches exactly one, which is the decoded variant;
\* one whose low byte is 0xFF matches none and the decoding panics
C10_AtMostOneVariant ==
    result # <<>> =>
        /\ Cardinality(Matching(input)) <= 1
        /\ input % 256 # 255 =>
              /\ Cardinality(Matching(input)) = 1
              /\ result[1].tag \in Matching(input)
        /\ input % 256 = 255 =>
              /\ Matching(input) = {}
              /\ result[1].tag = "panic"

\* the status of a target killed by a signal was decoded
C10_Witness ==
    /\ result # <<>>
    /\ input = 9
    /\ result[1] = [tag |-> "Signaled", val |-> 9]

-----------------------------------------------------------------------------
(* Command loop, errors and stepping *)

\* C11: once the loop has ended by quit or EOF with running true the target
\* is no longer alive (SIGKILL was sent), and as long as no resuming command
\* was issued the target has run no instruction past its initial stop
C11_KilledBeforeItRuns ==
    /\ (dbg = "quit" /\ running) => tstate \notin {"stopped", "running"}
    /\ ~resumed =>
          /\ regs = InitialRegs
          /\ nexec = 0
          /\ tstate \in {"stopped", "killed"}
          /\ dbg = "quit" => tstate = "killed"

\* end of input after a break command only: the target was killed unrun
C11_Witness ==
    /\ dbg = "quit" /\ cmd.name = "eof"
    /\ ~resumed /\ running
    /\ tstate = "killed"
    /\ breakpoints # <<>>

\* C12: when the wait of continue_execution returns Exited, the continue
\* command prints the exit message and nothing else, sets running to false
\* and returns Ok: no tracer request is made of the exited target, whose
\* failure would be reported
C12_ExitedEndsCommand ==
    (cmd.name = "continue" /\ stop.kind = "exit" /\ stop.via = "cont") =>
        /\ dbg = "ok"
        /\ running = FALSE
        /\ out = <<Msg("program exited", 0)>>
        /\ tstate = "exited"

\* a continue ran the target to its exit
C12_Witness ==
    /\ cmd.name = "continue"
    /\ stop.kind = "exit" /\ stop.via = "cont"
    /\ ~running
    /\ nexec = MaxCount

\* C13 as stated: a command issued when the tracer requests fail (the
\* target has exited or was killed) ends with the debugger back at the
\* prompt, never with the debugger aborted
C13_LoopSurvivesTracerErrors ==
    [][(dbg = "ok" /\ tstate # "stopped" /\ cmd'.name \in Resuming) =>
          dbg' = "ok"]_vars

\* C14 as stated: peekdata returns Ok exactly when errno stayed zero, that
\* is when the target is in a ptrace stop and the word is mapped; here for
\* the addresses the debugger has peeked to set its breakpoints
C14_PeekErrOnErrno ==
    \A a \in DOMAIN breakpoints :
        peekdata(Cur, a).ok <=> (PtraceOk(Cur) /\ WordMapped(mem, a))

\* C15: no command takes a User entry out of the table or changes its
\* source; a step_over or step_out that returns leaves each User entry
\* with the saved byte it had and the table with the entries it had
C15_UserEntriesSurvive ==
    [][dbg = "ok" =>
          /\ \A a \in DOMAIN breakpoints :
                breakpoints[a].source = "User" =>
                    /\ a \in DOMAIN breakpoints'
                    /\ breakpoints'[a].source = "User"
                    /\ (cmd'.name \in {"next", "finish"} /\ dbg' = "ok") =>
                          breakpoints'[a].saved_data = breakpoints[a].saved_data
          /\ (cmd'.name \in {"next", "finish"} /\ dbg' = "ok") =>
                /\ DOMAIN breakpoints' = DOMAIN breakpoints
                /\ transient' \cap DOMAIN breakpoints = {}]_vars

\* a step_over stopped at a transient breakpoint with User entries, one
\* enabled and one disabled, in the table
C15_Witness ==
    /\ AtPrompt /\ Alive
    /\ cmd.name = "next"
    /\ stop.kind = "brk" /\ stop.at \in transient
    /\ \E a, b \in DOMAIN breakpoints :
          /\ breakpoints[a].source = "User" /\ enabled(breakpoints[a])
          /\ breakpoints[b].source = "User" /\ ~enabled(breakpoints[b])

\* C16 as stated: a stepi that returns to the prompt has made the target
\* execute exactly one instruction (a step that faults aside)
C16_StepiRunsOneInstruction ==
    (cmd.name = "stepi" /\ dbg = "ok" /\ stop.kind # "segv") => nexec = 1

\* C17: disable at a pc without entry prints "no such breakpoint" and
\* changes nothing; on an enabled entry it puts the program byte back and
\* keeps the entry, disabled; break on a disabled entry enables that entry
\* again, its saved byte the program byte
C17_DisableKeepsEntry ==
    [][dbg = "ok" =>
          \A a \in {CmdAddr(cmd')} :
              /\ (cmd'.name = "disable" /\ a \notin DOMAIN breakpoints) =>
                    /\ dbg' = "ok"
                    /\ out' = <<Msg("no such breakpoint", 0)>>
                    /\ breakpoints' = breakpoints
                    /\ mem' = mem /\ regs' = regs /\ tstate' = tstate
              /\ DisableStep(a) =>
                    /\ a \in DOMAIN breakpoints'
                    /\ breakpoints'[a] = [breakpoints[a] EXCEPT !.saved_data = None]
                    /\ mem'[a] = Orig[a]
              /\ (/\ cmd'.name = "break" /\ dbg' = "ok"
                  /\ a \in DOMAIN breakpoints /\ ~enabled(breakpoints[a])
                  /\ Alive /\ WordMapped(mem, a)) =>
                    /\ breakpoints'[a] =
                          [breakpoints[a] EXCEPT !.saved_data = Some(Orig[a])]
                    /\ mem'[a] = INT3_INSTR]_vars

\* a disable found no entry at its address in a table that has entries
C17_Witness ==
    /\ AtPrompt /\ Alive
    /\ cmd.name = "disable"
    /\ out = <<Msg("no such breakpoint", 0)>>
    /\ \E a \in DOMAIN breakpoints : ~enabled(breakpoints[a]) /\ a \in DOMAIN mem

-----------------------------------------------------------------------------
(* Command-line arguments and messages *)

\* the lower-case form of the identifier of register r
LowerIdent(r) == str_to_ascii_lowercase(Ident[r])

\* C18 as stated: the accepted names are exactly the lower-case forms of the
\* 27 identifiers of Reg, each parsing to its register
C18_NamesAreLowerIdents ==
    result # <<>> =>
        /\ \A r \in Reg : input = LowerIdent(r) => result[1] = Ok(r)
        /\ result[1].ok => \E r \in Reg : input = LowerIdent(r)

\* C18 amended: the lower-case form of every identifier but Rflags parses
\* to its register; Rflags goes by the name "eflags", and "rflags" is
\* rejected; nothing else is accepted
C18_NamesAreLowerIdentsButRflags ==
    result # <<>> =>
        /\ \A r \in Reg \ {"Rflags"} : input = LowerIdent(r) => result[1] = Ok(r)
        /\ input = <<"e", "f", "l", "a", "g", "s">> => result[1] = Ok("Rflags")
        /\ input = LowerIdent("Rflags") => result[1] = Err("invalid register name")
        /\ result[1].ok =>
              \/ \E r \in Reg \ {"Rflags"} : input = LowerIdent(r)
              \/ input = <<"e", "f", "l", "a", "g", "s">>

\* the lower-case identifier of Fs, a prefix of another name, was parsed
C18_Witness ==
    /\ result # <<>>
    /\ input = LowerIdent("Fs")
    /\ result[1] = Ok("Fs")

HexChars == {Digits[i] : i \in 1..16} \cup {to_ascii_uppercase(Digits[i]) : i \in 1..16}
DecChars == {Digits[i] : i \in 1..10}

\* s has the form 0x<hex>
HexForm(s) ==
    /\ Len(s) >= 3 /\ s[1] = "0" /\ s[2] = "x"
    /\ \A i \in 3..Len(s) : s[i] \in HexChars

\* s has the form <file>:<line> with a decimal line
LineForm(s) ==
    \E i \in 2..(Len(s) - 1) :
        s[i] = ":" /\ \A j \in (i + 1)..Len(s) : s[j] \in DecChars

\* C19 as stated: 0x<hex> parses to Addr, <file>:<line> to Line, and every
\* other argument is accepted as a Function name
C19_LocGrammar ==
    result # <<>> =>
        /\ HexForm(input) => result[1].ok /\ result[1].val.kind = "Addr"
        /\ (~HexForm(input) /\ LineForm(input)) =>
              result[1].ok /\ result[1].val.kind = "Line"
        /\ (~HexForm(input) /\ ~LineForm(input)) =>
              result[1].ok /\ result[1].val = Function(input)

\* t is a number in the given digits: digits, optionally after a '+'
Numeral(t, chars) ==
    LET d == IF t # <<>> /\ t[1] = "+" THEN Tail(t) ELSE t
    IN  d # <<>> /\ \A i \in 1..Len(d) : d[i] \in chars

\* the text before and after the first ':' of s
BeforeColon(s) == SubSeq(s, 1, (CHOOSE k \in 1..Len(s) : s[k] = ":" /\ \A j \in 1..(k - 1) : s[j] # ":") - 1)
AfterColon(s) == SubSeq(s, Len(BeforeColon(s)) + 2, Len(s))

\* C19 amended: an argument that starts with 0x parses to Addr when the
\* rest is a hexadecimal number and is rejected otherwise; one that does
\* not start with 0x and contains ':' parses to Line, the file the text
\* before the first ':', when the text after it is a decimal number and is
\* rejected otherwise; every other argument parses to Function
C19_LocGrammarByPrefix ==
    result # <<>> =>
        IF Len(input) >= 2 /\ input[1] = "0" /\ input[2] = "x"
        THEN /\ result[1].ok <=> Numeral(SubSeq(input, 3, Len(input)), HexChars)
             /\ result[1].ok => result[1].val.kind = "Addr"
             /\ input = <<"0", "x", "f", "0">> => result[1].val.num = 240
        ELSE IF \E i \in 1..Len(input) : input[i] = ":"
        THEN /\ result[1].ok <=> Numeral(AfterColon(input), DecChars)
             /\ result[1].ok =>
                   /\ result[1].val.kind = "Line"
                   /\ result[1].val.text = BeforeColon(input)
        ELSE result[1].ok /\ result[1].val = Function(input)

\* a name with '::' in it was given to break and rejected
C19_Witness ==
    /\ result # <<>>
    /\ input = <<"f", ":", ":", "g">>
    /\ ~result[1].ok

\* C20 as stated: every address shown is the runtime address minus load_addr
\* in hexadecimal, in 'set breakpoint at', 'already have a breakpoint at' and
\* 'hit breakpoint', and break at pc stores the entry under load_addr + pc
C20_AddressesShownInHex ==
    /\ (AtPrompt /\ cmd.name = "break") =>
          /\ CmdAddr(cmd) \in DOMAIN breakpoints
          /\ \A i \in 1..Len(out) :
                out[i].msg \in {"set breakpoint at", "already have a breakpoint at"} =>
                    out[i].arg = fmt_LowerHex(SubU64(CmdAddr(cmd), load_addr))
    /\ (AtPrompt /\ stop.kind = "brk") =>
          \A i \in 1..Len(out) :
              out[i].msg = "hit breakpoint" =>
                  out[i].arg = fmt_LowerHex(SubU64(stop.at, load_addr))

-----------------------------------------------------------------------------
(* Stepping properties *)

\* the requests of the trace
Peek(a) == [op |-> "peekdata", addr |-> a, byte |-> 0]
Poke(a, b) == [op |-> "pokedata", addr |-> a, byte |-> b]

\* tr[i] is the first request of tr that resumes or awaits the target
FirstResume(tr, i) ==
    /\ i \in 1..Len(tr)
    /\ tr[i].op \in {"singlestep", "cont", "wait"}
    /\ \A j \in 1..(i - 1) : tr[j].op \notin {"singlestep", "cont", "wait"}

\* the first resume of tr is a single step that disable (writing byte b at
\* pc) and enable (writing the trap byte at pc) straddle
Straddled(tr, pc, b) ==
    \E i \in 3..(Len(tr) - 3) :
        /\ FirstResume(tr, i)
        /\ tr[i - 2] = Peek(pc) /\ tr[i - 1] = Poke(pc, b)
        /\ tr[i].op = "singlestep" /\ tr[i + 1].op = "wait"
        /\ tr[i + 2] = Peek(pc) /\ tr[i + 3] = Poke(pc, INT3_INSTR)

\* this step is a resuming command given with the target stopped at an
\* enabled breakpoint
ResumeFromBreakpoint ==
    /\ dbg = "ok" /\ tstate = "stopped"
    /\ cmd'.name \in Resuming
    /\ regs.rip \in DOMAIN breakpoints
    /\ enabled(breakpoints[regs.rip])

\* C21 as stated: a command that resumes the target from a PC with an enabled
\* breakpoint disables it, single-steps and waits once, and enables it, in
\* that order, the step running the original byte; the breakpoint is enabled
\* again afterwards
C21_StepStraddled ==
    [][ResumeFromBreakpoint =>
          /\ Straddled(trace', regs.rip, Orig[regs.rip])
          /\ regs.rip \in DOMAIN breakpoints'
          /\ enabled(breakpoints'[regs.rip])]_vars

\* C21 amended: the order holds as stated, and the breakpoint is enabled
\* again exactly when the target survived the single step; when the stepped
\* instruction ended the target, the write of enable fails and the entry
\* stays in the table disabled
C21_StepStraddledWhileAlive ==
    [][ResumeFromBreakpoint =>
          /\ Straddled(trace', regs.rip, Orig[regs.rip])
          /\ regs.rip \in DOMAIN breakpoints'
          /\ enabled(breakpoints'[regs.rip]) <=> ~(tstate' = "exited" /\ nexec' = 1)]_vars

\* a continue was given at an enabled breakpoint, stepped over it and ran on
\* to the next one
C21_Witness ==
    /\ AtPrompt /\ Alive
    /\ cmd.name = "continue"
    /\ Len(trace) > 8
    /\ trace[3].op = "pokedata" /\ trace[3].byte # INT3_INSTR
    /\ trace[4].op = "singlestep"
    /\ trace[7] = Poke(trace[3].addr, INT3_INSTR)
    /\ trace[8].op = "cont"
    /\ enabled(breakpoints[trace[3].addr])
    /\ stop.kind = "brk" /\ stop.at # trace[3].addr

\* (file, line) of the PC in the current state
LocOfPc(rs) == source_for_pc(SubU64(rs.rip, load_addr))

\* number of requests op in the trace tr
RECURSIVE CountOp(_, _)
CountOp(tr, op) ==
    IF tr = <<>> THEN 0
    ELSE (IF Head(tr).op = op THEN 1 ELSE 0) + CountOp(Tail(tr), op)

\* C22 as stated: step, given at any stop and with any table content, comes
\* back to the prompt after at least one instruction, every iteration of
\* its loop having run exactly one, at a source location other than the one
\* it started from
C22_StepInProgresses ==
    [][(dbg = "ok" /\ tstate = "stopped" /\ cmd'.name = "step") =>
          /\ dbg' = "ok"
          /\ nexec' >= 1
          /\ nexec' = IF CountOp(trace', "singlestep") < MaxCount
                      THEN CountOp(trace', "singlestep") ELSE MaxCount
          /\ LocOfPc(regs') # LocOfPc(regs)]_vars

\* the table and the memory of snapshot sn hold an enabled breakpoint at a
TrapAt(sn, a) ==
    /\ a \in DOMAIN sn.breakpoints /\ enabled(sn.breakpoints[a])
    /\ a \in DOMAIN sn.mem /\ sn.mem[a] = INT3_INSTR

\* the return address of the current frame, the word at [rbp + 8]
ReturnAddress == WordToAddr(peekdata(Cur, AddU64(regs.rbp, 8)).data)

\* runtime addresses of the line starts of the function around the PC,
\* the PC itself left out
OtherLineStarts ==
    LET pc == SubU64(regs.rip, load_addr)
        locs == function_lines_from_pc(pc)
    IN  {AddU64(load_addr, locs[i]) : i \in {k \in 1..Len(locs) : locs[k] # pc}}

\* C23 as stated: when next or finish issues its PTRACE_CONT, an enabled
\* breakpoint with its trap byte in memory stands at the return address and,
\* for next, at every other line start of the function (each of them an
\* address of the target's memory), whatever entries the table held there
C23_GuardsInPlaceAtResume ==
    [][(dbg = "ok" /\ tstate = "stopped" /\ cmd'.name \in {"next", "finish"}
            /\ snap'.taken) =>
          /\ ReturnAddress \in DOMAIN mem => TrapAt(snap', ReturnAddress)
          /\ cmd'.name = "next" =>
                \A a \in OtherLineStarts \cap DOMAIN mem : TrapAt(snap', a)]_vars

\* C24 as stated: once step_over has issued its continue, whatever the
\* continue ends in (a breakpoint stop, another signal, the exit of the
\* target, a tracer error), step_over is left with no transient breakpoint in
\* the table
C24_TornDownWhateverTheOutcome ==
    (cmd.name = "next" /\ dbg # "hung" /\ CountOp(trace, "cont") >= 1) =>
        /\ to_delete = <<>>
        /\ \A a \in transient : a \notin DOMAIN breakpoints

\* the table held an Internal entry at a when the target was continued
InternalAt(a) ==
    a \in DOMAIN snap.breakpoints /\ is_internal(snap.breakpoints[a])

\* the table held a User entry at a when the target was continued
UserAt(a) ==
    a \in DOMAIN snap.breakpoints /\ ~is_internal(snap.breakpoints[a])

\* the last command printed 'hit breakpoint' with the ELF-relative address a
HitPrinted(a) ==
    \E i \in 1..Len(out) : out[i] = MsgHex("hit breakpoint", SubU64(a, load_addr))

C25_WitnessInternal ==
    /\ AtPrompt /\ Alive
    /\ cmd.name = "finish"
    /\ stop.kind = "brk" /\ stop.at \in transient
    /\ ~HitPrinted(stop.at)

-----------------------------------------------------------------------------
(* Function breakpoints *)

\* the line starts of function fname, ascending
LineStartsOf(fname) ==
    LET ps == {p \in CodePcs : InsAt(p).fn = fname}
    IN  RowStartsFrom(CHOOSE p \in ps : \A q \in ps : p <= q,
                      (CHOOSE p \in ps : \A q \in ps : q <= p) + 1)

\* where break <fname> belongs: the second line start if there is one
BreakTarget(fname) ==
    LET starts == LineStartsOf(fname)
    IN  AddU64(load_addr, IF Len(starts) >= 2 THEN starts[2] ELSE starts[1])

\* C26 as stated: break <name> with the name of a function of the debug
\* info leaves an enabled User breakpoint at the function's second line
\* start (the first if it has only one) and touches no other entry; with a
\* name that is no function's it prints a diagnostic and leaves the table
\* and the memory as they were
C26_FunctionBreakpoint ==
    [][(dbg = "ok" /\ tstate = "stopped" /\ cmd'.name = "break_fn") =>
          /\ dbg' = "ok"
          /\ IF cmd'.fn \in Functions
             THEN /\ BreakTarget(cmd'.fn) \in DOMAIN breakpoints'
                  /\ enabled(breakpoints'[BreakTarget(cmd'.fn)])
                  /\ ~is_internal(breakpoints'[BreakTarget(cmd'.fn)])
                  /\ \A a \in (DOMAIN breakpoints' \cup DOMAIN breakpoints) \ {BreakTarget(cmd'.fn)} :
                        a \in DOMAIN breakpoints /\ a \in DOMAIN breakpoints'
                            /\ breakpoints'[a] = breakpoints[a]
             ELSE /\ \E i \in 1..Len(out') : out'[i].msg = "couldn't find function matching"
                  /\ breakpoints' = breakpoints
                  /\ mem' = mem]_vars

-----------------------------------------------------------------------------
(* Failure paths *)

\* this step is a break command whose enable wrote the trap word at a and
\* whose write failed: the word is not mapped, or the target is gone
FailedEnableStep(a) ==
    /\ dbg = "ok"
    /\ cmd'.name = "break" /\ a = CmdAddr(cmd')
    /\ trace' = <<Peek(a), Poke(a, INT3_INSTR)>>
    /\ ~(tstate = "stopped" /\ WordMapped(mem, a))

\* C27: when the write of enable fails, no saved byte is recorded, the
\* breakpoint is disabled, the memory is as it was, and the entry is in the
\* table
C27_FailedEnableLeavesDisabledEntry ==
    [][\A a \in {CmdAddr(cmd')} :
          FailedEnableStep(a) =>
              /\ dbg' = "ok"
              /\ a \in DOMAIN breakpoints'
              /\ breakpoints'[a].saved_data = None
              /\ ~enabled(breakpoints'[a])
              /\ mem' = mem]_vars

\* break was given for an address that is not mapped: the write failed and
\* the entry is in the table, disabled
C27_Witness ==
    /\ AtPrompt /\ Alive
    /\ cmd.name = "break"
    /\ trace = <<Peek(CmdAddr(cmd)), Poke(CmdAddr(cmd), INT3_INSTR)>>
    /\ ~WordMapped(mem, CmdAddr(cmd))
    /\ CmdAddr(cmd) \in DOMAIN breakpoints
    /\ ~enabled(breakpoints[CmdAddr(cmd)])

\* this step is a finish given at the initial stop with no breakpoint enabled
FinishAtInitialStop ==
    /\ dbg = "ok" /\ tstate = "stopped"
    /\ regs = InitialRegs
    /\ cmd'.name = "finish"
    /\ \A a \in DOMAIN breakpoints : ~enabled(breakpoints[a])

\* C28: finish at the initial stop, with no breakpoint enabled: the return
\* address it computes is no address of the target, the transient entry
\* made for it cannot be enabled, the target runs to its end, 'program
\* exited' is printed, finish returns, and the teardown removes the entry
\* with no request to the target (no disable)
C28_FinishAtInitialStop ==
    [][FinishAtInitialStop =>
          /\ ReturnAddress \notin DOMAIN mem
          /\ transient' = {ReturnAddress}
          /\ snap'.taken
          /\ ReturnAddress \in DOMAIN snap'.breakpoints
          /\ ~enabled(snap'.breakpoints[ReturnAddress])
          /\ dbg' = "ok" /\ tstate' = "exited" /\ running' = FALSE
          /\ out' = <<Msg("program exited", 0)>>
          /\ to_delete' = <<>>
          /\ ReturnAddress \notin DOMAIN breakpoints'
          /\ trace'[Len(trace')].op = "wait"
          /\ trace'[Len(trace') - 1].op = "cont"]_vars

\* finish was the first command: the target ran to its end and the
\* transient entry is gone
C28_Witness ==
    /\ AtPrompt
    /\ cmd.name = "finish"
    /\ snap.taken /\ snap.regs = InitialRegs
    /\ tstate = "exited"
    /\ out = <<Msg("program exited", 0)>>
    /\ transient # {}
    /\ \A a \in transient : a \notin DOMAIN mem /\ a \notin DOMAIN breakpoints

-----------------------------------------------------------------------------
(* Tracer protocol *)

Resumes == {"cont", "singlestep"}

-----------------------------------------------------------------------------
(* Register block *)

\* C30: a register write on a stopped target issues getregs and then
\* setregs and nothing else; afterwards the register reads as the value
\* written and each of the other 26 registers reads as before, the 27
\* registers naming 27 distinct fields, all the fields of the block
C30_SetRegFrame ==
    [][(cmd'.name = "register_write" /\ tstate = "stopped") =>
          /\ dbg' = "ok"
          /\ <<trace'[1].op, trace'[2].op>> = <<"getregs", "setregs">>
          /\ Len(trace') = 2
          /\ get_reg(cmd'.reg, regs') = cmd'.val
          /\ getreg(Cur', cmd'.reg).val = cmd'.val
          /\ \A r \in Reg \ {cmd'.reg} : get_reg(r, regs') = get_reg(r, regs)
          /\ Cardinality(Reg) = 27
          /\ \A r1, r2 \in Reg : user_regs_ptr(r1) = user_regs_ptr(r2) => r1 = r2
          /\ {user_regs_ptr(r) : r \in Reg} = DOMAIN regs
          /\ mem' = mem /\ tstate' = tstate /\ breakpoints' = breakpoints]_vars

\* eflags was written after another register had been: the new value is
\* in the block next to the earlier write and the initial stack pointer
C30_Witness ==
    /\ cmd.name = "register_write" /\ cmd.reg = "Rflags"
    /\ dbg = "ok" /\ tstate = "stopped"
    /\ regs.eflags = cmd.val
    /\ regs.rsp = InitialRegs.rsp
    /\ Cardinality(Written) = MaxWrites

-----------------------------------------------------------------------------
(* Debug information lookups *)

\* the entries of the unit, in DFS order, that are subprograms named needle
SubprogramsNamed(needle) ==
    {i \in 1..Len(Dies) :
        Dies[i].tag = "DW_TAG_subprogram" /\ Dies[i].name = needle}

\* the low_pc of the first subprogram named needle, None if there is none
FirstSubprogram(needle) ==
    IF SubprogramsNamed(needle) = {} THEN None
    ELSE LET i == CHOOSE k \in SubprogramsNamed(needle) :
                      \A j \in SubprogramsNamed(needle) : k <= j
         IN  Some(at_low_pc(Dies[i]))

\* C31 as stated: the lookup made by break <name> returns the low_pc of
\* the first entry that is a subprogram and carries the name, and None
\* when no subprogram carries it, whatever other entries do
C31_SubprogramLookup ==
    [][cmd'.name = "break_fn" =>
          pc_for_function_pred(cmd'.fn) = FirstSubprogram(cmd'.fn)]_vars

-----------------------------------------------------------------------------
(* Backtrace *)

\* the frame pointer of frame i: rbp, then the word each frame pointer
\* points to
RECURSIVE FramePointer(_)
FramePointer(i) ==
    IF i = 1 THEN regs.rbp
    ELSE WordToAddr(peekdata(Cur, FramePointer(i - 1)).data)

\* the pc of frame i, ELF-relative: the PC, then the word above each frame
\* pointer less the load address
FramePc(i) ==
    IF i = 1 THEN SubU64(regs.rip, load_addr)
    ELSE SubU64(WordToAddr(peekdata(Cur, AddU64(FramePointer(i - 1), 8)).data), load_addr)

\* the walk ends with a frame at pc: no frame info, or the function is main
StopsAt(pc) ==
    \/ pc \notin CodePcs
    \/ InsAt(pc).fn \notin Functions
    \/ InsAt(pc).fn = "main"

\* C32: backtrace on a stopped target prints frames numbered 1, 2, ...,
\* the first at the PC and each next one at the return address found above
\* the previous frame pointer less the load address, the last printed
\* frame being the first that is in main or has no frame info; it issues
\* only register and memory reads and leaves registers, memory, the
\* breakpoint table and the target as they were
C32_BacktraceWalk ==
    [][(cmd'.name = "backtrace" /\ tstate = "stopped") =>
          /\ dbg' = "ok"
          /\ Len(out') >= 1
          /\ \A i \in 1..Len(out') :
                /\ out'[i].msg = "frame"
                /\ out'[i].num = fmt_Display(i)
                /\ out'[i].arg = fmt_LowerHex(FramePc(i))
                /\ StopsAt(FramePc(i)) <=> i = Len(out')
          /\ \A k \in 1..Len(trace') : trace'[k].op \in {"getregs", "peekdata"}
          /\ regs' = regs /\ mem' = mem /\ breakpoints' = breakpoints
          /\ tstate' = tstate]_vars

\* a backtrace taken inside f printed the frame of f and then the frame
\* of main, and stopped there
C32_Witness ==
    /\ cmd.name = "backtrace" /\ dbg = "ok" /\ tstate = "stopped"
    /\ Len(out) = 2
    /\ out[1].func = Some("f") /\ out[1].num = <<"1">>
    /\ out[2].func = Some("main") /\ out[2].num = <<"2">>
    /\ out[2].arg = fmt_LowerHex(ImgOff + 6)

-----------------------------------------------------------------------------
(* Preconditions of enable and disable *)

\* C33 as stated: no command calls disable on a breakpoint whose saved
\* byte is absent, a disable of an entry that is already disabled included
C33_DisablePrecondition == "breakpoint is not enabled" \notin violated

\* C34: no command calls enable on a breakpoint that has a saved byte
C34_EnablePrecondition == "breakpoint is already enabled" \notin violated


\* a continue from an enabled breakpoint disabled it, stepped, and enabled
\* it again: enable found no saved byte, and the entry has one now
C34_Witness ==
    /\ cmd.name = "continue" /\ dbg = "ok" /\ tstate = "stopped"
    /\ violated = {}
    /\ \E a \in DOMAIN breakpoints :
          /\ enabled(breakpoints[a])
          /\ \E i, j \in 1..Len(trace) :
                /\ i < j
                /\ trace[i] = Poke(a, Orig[a])
                /\ trace[j] = Poke(a, INT3_INSTR)

-----------------------------------------------------------------------------
(* Program image under breakpoints *)

\* runtime addresses of the program's code
CodeAddrs == {a \in DOMAIN mem : a - load_addr \in CodePcs}

EnabledAt(a) == a \in DOMAIN breakpoints /\ enabled(breakpoints[a])

\* C35: at the prompt with the target alive, every enabled breakpoint
\* holds the original program byte of its address as its saved byte, and
\* code memory holds the original program byte at every address that has
\* no enabled breakpoint
C35_ImageIntact ==
    (AtPrompt /\ Alive) =>
        /\ \A a \in DOMAIN breakpoints :
              enabled(breakpoints[a]) =>
                  a \in DOMAIN mem /\ breakpoints[a].saved_data = Some(Orig[a])
        /\ \A a \in CodeAddrs : ~EnabledAt(a) => mem[a] = Orig[a]

\* two enabled breakpoints whose words overlap, after the target was
\* resumed through the first and stopped at the second, next to an entry
\* that was disabled again
C35_Witness ==
    /\ AtPrompt /\ Alive
    /\ cmd.name = "continue" /\ stop.kind = "brk"
    /\ \E a, b \in DOMAIN breakpoints :
          /\ b < a /\ a < b + 8
          /\ enabled(breakpoints[a]) /\ enabled(breakpoints[b])
          /\ stop.at = b
          /\ Poke(a, Orig[a]) \in {trace[i] : i \in 1..Len(trace)}
    /\ \E c \in DOMAIN breakpoints : c \in DOMAIN mem /\ ~enabled(breakpoints[c])

-----------------------------------------------------------------------------
(* The running flag *)

\* C36 as stated: the running flag is false whenever the target has
\* terminated, so a kill sent on quit or at the end of input always finds
\* the target and ends it
C36_RunningFalseWhenGone ==
    /\ tstate = "exited" => ~running
    /\ (\E i \in 1..Len(trace) : trace[i].op = "kill") => tstate = "killed"

-----------------------------------------------------------------------------
(* User breakpoints across resumes *)

\* C37: a resuming command given with the target stopped and returning
\* with the target still stopped leaves every User breakpoint that was
\* enabled in the table, enabled, with the saved byte it had and the trap
\* byte in memory, the one at the PC it resumed from included
C37_UserBreakpointsStayEnabled ==
    [][(/\ cmd'.name \in Resuming
        /\ dbg = "ok" /\ tstate = "stopped"
        /\ dbg' = "ok" /\ tstate' = "stopped") =>
          \A a \in DOMAIN breakpoints :
              (breakpoints[a].source = "User" /\ enabled(breakpoints[a])) =>
                  /\ a \in DOMAIN breakpoints'
                  /\ breakpoints'[a] = breakpoints[a]
                  /\ mem'[a] = INT3_INSTR]_vars

\* a stepi given at an enabled User breakpoint put the program byte back
\* for the step and left the breakpoint enabled behind the new PC
C37_Witness ==
    /\ AtPrompt /\ Alive
    /\ cmd.name = "stepi"
    /\ \E a \in DOMAIN breakpoints :
          /\ breakpoints[a].source = "User" /\ enabled(breakpoints[a])
          /\ regs.rip # a
          /\ \E i, j \in 1..Len(trace) :
                i < j /\ trace[i] = Poke(a, Orig[a]) /\ trace[j] = Poke(a, INT3_INSTR)

-----------------------------------------------------------------------------
(* Commands that do not resume *)

Inspecting ==
    {"break", "disable", "register_dump", "register_read", "symbol",
     "backtrace", "help"}

\* C38: break, disable, register dump, register read, symbol, backtrace
\* and help issue no cont and no singlestep, the target executes no
\* instruction, and its registers, the PC among them, and its run state
\* are as before
C38_InspectingDoesNotResume ==
    [][(dbg = "ok" /\ cmd'.name \in Inspecting) =>
          /\ \A i \in 1..Len(trace') : trace'[i].op \notin Resumes \cup {"wait"}
          /\ nexec' = 0
          /\ regs' = regs
          /\ tstate' = tstate]_vars

\* a register read of the PC at a breakpoint stop printed the address of
\* the breakpoint and left the target stopped there
C38_Witness ==
    /\ AtPrompt /\ Alive
    /\ cmd.name = "register_read" /\ cmd.reg = "Rip"
    /\ regs.rip \in DOMAIN breakpoints /\ enabled(breakpoints[regs.rip])
    /\ out = <<MsgHex("0x", regs.rip)>>
    /\ trace = <<[op |-> "getregs", addr |-> 0, byte |-> 0]>>

-----------------------------------------------------------------------------
(* DWARF register numbers *)

\* the registers whose descriptor carries DWARF number n
RegsNumbered(n) == {REGS[i].reg : i \in {k \in 1..Len(REGS) : REGS[k].dwarf_r = n}}

\* C39 as stated: a DWARF number is carried by at most one register, and
\* from_dwarf and dwarf_to_reg of the number of a register return that
\* register
C39_DwarfNumbersInvertible ==
    result # <<>> =>
        /\ Cardinality(RegsNumbered(input)) <= 1
        /\ \A r \in RegsNumbered(input) :
              result[1] = Ok(r) /\ result[2] = Ok(r)
        /\ RegsNumbered(input) = {} =>
              ~result[1].ok /\ ~result[2].ok

====
